---- MODULE Spec2Model ----
(***************************************************************************)
(* Coordination core of rivanna.dev's multi-node test workloads:           *)
(*   - the shared-file rendezvous of tier3-multinode-ray/coordinator.py    *)
(*     (write_file, poll_file, cleanup, run_head, run_worker);             *)
(*   - the segment/resume script test-checkpoint-restart/long_train.py.    *)
(* Time is a global clock counted in ticks.  A process that can take a     *)
(* step takes it before the clock advances; the clock advances only while  *)
(* every live process is sleeping or in a phase of unknown duration.       *)
(***************************************************************************)
EXTENDS Integers, Sequences, FiniteSets, TLC

VARIABLES
    now,        \* the clock (rendezvous: seconds; segment: half seconds)
    files,      \* shared store: path -> [exists, data]
    hpc,        \* run_head: position
    headAddr,   \* run_head: head_addr (gcs address of the head runtime)
    headAlive,  \* the head runtime is up (between ray.init and ray.shutdown)
    hpos,       \* write_file in progress on the head: characters flushed so far
    hdeadline,  \* run_head: deadline of the cluster-formation wait
    hwake,      \* run_head: end of the current sleep / latest end of the test phase
    hexit,      \* run_head: process exit status (NoExit while running)
    clusterOk,  \* run_head: cluster_ok
    joined,     \* workers currently connected to the head runtime
    wpc,        \* run_worker: position, per worker
    wdeadline,  \* poll_file: deadline, per worker
    wwake,      \* poll_file: end of the current sleep, per worker
    wheld,      \* run_worker: head_addr returned by poll_file, per worker
    wexit,      \* run_worker: process exit status, per worker
    wshut,      \* run_worker: number of ray.shutdown() calls, per worker
    hist,       \* history of the run (observations only, never read by the code)
    spc,        \* long_train: position of the main script
    si,         \* long_train: loop variable i
    swake,      \* long_train: end of the current time.sleep(1)
    sprior,     \* long_train: total_elapsed (RV_TOTAL_ELAPSED)
    srequested, \* long_train: total_requested (RV_TOTAL_REQUESTED)
    sstart,     \* long_train: segment_start
    sframes,    \* long_train: the handle_signal calls in progress, innermost last
    sout,       \* long_train: the lines printed so far
    sexit,      \* long_train: process exit status (NoExit while running)
    ssig,       \* signals delivered so far, with the time of each (observation only)
    stfiles,    \* store of several jobs: <<job id, key>> -> [exists, data]
    stlocked,   \* paths os.remove cannot remove (PermissionError)
    stlatest,   \* per path: the latest completed write, or never written / removed
    stop,       \* the latest store operation, its arguments and its result
    tworld,     \* check_topology: world_size
    thost,      \* check_topology: hostname of each rank (socket.gethostname())
    tmaster,    \* check_topology: master_addr (MASTER_ADDR of rank 0)
    tpc,        \* check_topology: position, per rank
    tr,         \* check_topology: loop variable r, per rank
    tsent,      \* all_gather: the tensor each rank has contributed (<<>> before)
    tnames,     \* check_topology: hostnames, per rank (<<>> before the gather returns)
    tlog,       \* the log stream the ranks share: the lines printed so far
    tres,       \* check_topology: results, per rank
    dpc,        \* two heads of one job: position of each in run_head
    daddr,      \* two heads of one job: head_addr of each
    dpos,       \* two heads of one job: offset of each head's open file
    dclosed,    \* two heads of one job: the heads in the order their write_file returned
    dpolled     \* two heads of one job: what a later poll_file returned (<<>> before)

vars == <<now, files, hpc, headAddr, headAlive, hpos, hdeadline, hwake, hexit,
          clusterOk, joined, wpc, wdeadline, wwake, wheld, wexit, wshut, hist,
          spc, si, swake, sprior, srequested, sstart, sframes, sout, sexit, ssig,
          stfiles, stlocked, stlatest, stop,
          tworld, thost, tmaster, tpc, tr, tsent, tnames, tlog, tres,
          dpc, daddr, dpos, dclosed, dpolled>>

rdvVars == <<files, hpc, headAddr, headAlive, hpos, hdeadline, hwake, hexit,
             clusterOk, joined, wpc, wdeadline, wwake, wheld, wexit, wshut, hist>>

segVars == <<spc, si, swake, sprior, srequested, sstart, sframes, sout, sexit, ssig>>

storeVars == <<stfiles, stlocked, stlatest, stop>>

topoVars == <<tworld, thost, tmaster, tpc, tr, tsent, tnames, tlog, tres>>

twoHeadVars == <<dpc, daddr, dpos, dclosed, dpolled>>

----------------------------------------------------------------------------
(* Bounds of the model *)

NumWorkers == 2        \* worker processes (ranks 1..NumWorkers)
AddrTimeout == 4       \* poll_file timeout of the address wait (120 in the run)
DoneTimeout == 7       \* poll_file timeout of the done wait (600 in the run)
FormTimeout == 3       \* head's cluster-formation wait (120 in the run)
MaxStart == 2          \* latest start of a process after the job began
MaxWork == 1           \* longest duration of the head's test phase

Iterations == 62       \* passes of the work loop (range(3600) in the run)
MaxSignals == 2        \* signals delivered to one segment
TicksPerSecond == 2    \* resolution of the segment's clock

(* Program constants *)

ExitOk == 0            \* exit status of a script that runs to its end
ExitUncaught == 1      \* exit status of a script ended by an uncaught exception
PrintEvery == 60       \* `if i % 60 == 0`
\* (variant of ResumeCode: a status no uncaught error produces)
TempFailCode == ExitUncaught + 74
ResumeCode == 1        \* sys.exit(1)
SIGUSR1 == 10          \* signal.SIGUSR1
SIGTERM == 15          \* signal.SIGTERM

AddrInterval == 2      \* poll_file(interval=2)
DoneInterval == 5      \* poll_file(DONE_FILE, interval=5)
FormInterval == 2      \* time.sleep(2) of the formation wait
HeadGrace == 5         \* time.sleep(5) before ray.shutdown()
ExpectedNodes == 2     \* len(alive) >= 2
ExpectedGpus == 4      \* total_gpus >= 4
NUM_GPUS_PER_NODE == 2 \* SLURM_GPUS_ON_NODE, default "2"

Workers == 1..NumWorkers
NoExit == 0 - 1         \* no exit status yet: the process is still running
Never == 0 - 1          \* a time that has not been recorded

----------------------------------------------------------------------------
(* Strings are sequences of characters. *)

Blank == {" ", "\n"}

RECURSIVE LStrip(_)
LStrip(s) == IF s # <<>> /\ Head(s) \in Blank THEN LStrip(Tail(s)) ELSE s

RECURSIVE RStrip(_)
RStrip(s) ==
    IF s # <<>> /\ s[Len(s)] \in Blank THEN RStrip(SubSeq(s, 1, Len(s) - 1)) ELSE s

\* str.strip()
Strip(s) == RStrip(LStrip(s))

IsPrefix(p, s) == Len(p) <= Len(s) /\ SubSeq(s, 1, Len(p)) = p

\* The gcs addresses a head runtime may report: non-empty, no whitespace.
HeadAddrs == { <<"a", "b">>, <<"b">> }

DoneContent == <<"d", "o", "n", "e">>

ADDR_FILE == "addr"
DONE_FILE == "done"
Paths == {ADDR_FILE, DONE_FILE}

AbsentFile == [exists |-> FALSE, data |-> <<>>]

----------------------------------------------------------------------------
(* write_file(path, content): open(path, "w") creates or truncates the     *)
(* file; the content reaches the file when the buffer is flushed, in one   *)
(* or more writes, each visible to a reader on another node.               *)

FileOpened(fs, path) == [fs EXCEPT ![path] = [exists |-> TRUE, data |-> <<>>]]

FileAppended(fs, path, chunk) ==
    [fs EXCEPT ![path] = [exists |-> TRUE, data |-> fs[path].data \o chunk]]

\* os.remove(f) inside try/except OSError: a missing file is ignored.
FileRemoved(fs, path) == [fs EXCEPT ![path] = AbsentFile]

\* The characters one flush may add when `pos` of `content` are in the file.
Chunks(content, pos) == { SubSeq(content, pos + 1, k) : k \in (pos + 1)..Len(content) }

----------------------------------------------------------------------------
(* History of the run: what happened and when.  The code never reads it.   *)

HistInit ==
    [ addrWrites |-> 0,                       \* write_file(ADDR_FILE, ..) calls begun
      addrOpen   |-> Never,                   \* when the address write began
      addrClose  |-> Never,                   \* when the address write was complete
      addrSeen   |-> {},                      \* every content the address file has had
      doneWrites |-> 0,                       \* write_file(DONE_FILE, ..) calls begun
      doneClose  |-> Never,                   \* when the done write was complete
      removed    |-> {},                      \* paths cleanup() has removed
      addrGone   |-> Never,                   \* when cleanup() removed the address file
      timedOut   |-> {},                      \* workers whose address wait raised TimeoutError
      started    |-> [w \in Workers |-> Never],  \* when the address wait began
      lastCheck  |-> [w \in Workers |-> Never],  \* last look at the address file
      returned   |-> [w \in Workers |-> Never],  \* when the address wait returned
      joinedAt   |-> [w \in Workers |-> Never] ]  \* when ray.init(address=..) returned

----------------------------------------------------------------------------
(* run_head *)

AliveNodes == 1 + Cardinality(joined)
TotalGpus == NUM_GPUS_PER_NODE * AliveNodes

HeadFrame == <<wpc, wdeadline, wwake, wheld, wexit, wshut, segVars, storeVars, topoVars,
               twoHeadVars>>

\* ray.init(...) on the head succeeds: the runtime is up and reports its address.
HeadInit ==
    /\ hpc = "h_start"
    /\ \E a \in HeadAddrs : headAddr' = a
    /\ headAlive' = TRUE
    /\ hpc' = "h_write_addr"
    /\ UNCHANGED <<now, files, hpos, hdeadline, hwake, hexit, clusterOk, joined, hist>>
    /\ UNCHANGED HeadFrame

\* ray.init(...) on the head raises: the script ends with a traceback.
HeadInitFail ==
    /\ hpc = "h_start"
    /\ hpc' = "h_crashed"
    /\ hexit' = ExitUncaught
    /\ UNCHANGED <<now, files, headAddr, headAlive, hpos, hdeadline, hwake, clusterOk,
                   joined, hist>>
    /\ UNCHANGED HeadFrame

\* write_file(ADDR_FILE, head_addr): open(path, "w").
HeadOpenAddr ==
    /\ hpc = "h_write_addr"
    /\ files' = FileOpened(files, ADDR_FILE)
    /\ hpos' = 0
    /\ hpc' = "h_flush_addr"
    /\ hist' = [hist EXCEPT !.addrWrites = @ + 1, !.addrOpen = now,
                            !.addrSeen = @ \cup {<<>>}]
    /\ UNCHANGED <<now, headAddr, headAlive, hdeadline, hwake, hexit, clusterOk, joined>>
    /\ UNCHANGED HeadFrame

\* write_file(ADDR_FILE, head_addr): f.write(content) and the flush on close.
HeadFlushAddr ==
    /\ hpc = "h_flush_addr"
    /\ hpos < Len(headAddr)
    /\ \E c \in Chunks(headAddr, hpos) :
          /\ files' = FileAppended(files, ADDR_FILE, c)
          /\ hpos' = hpos + Len(c)
          /\ hist' = [hist EXCEPT !.addrSeen = @ \cup {files[ADDR_FILE].data \o c}]
    /\ UNCHANGED <<now, hpc, headAddr, headAlive, hdeadline, hwake, hexit, clusterOk, joined>>
    /\ UNCHANGED HeadFrame

\* write_file returns; the formation wait begins: deadline = time.time() + 120.
HeadCloseAddr ==
    /\ hpc = "h_flush_addr"
    /\ hpos = Len(headAddr)
    /\ hpc' = "h_form"
    /\ hdeadline' = now + FormTimeout
    /\ hist' = [hist EXCEPT !.addrClose = now]
    /\ UNCHANGED <<now, files, headAddr, headAlive, hpos, hwake, hexit, clusterOk, joined>>
    /\ UNCHANGED HeadFrame

\* One pass of `while time.time() < deadline`: break when enough nodes are alive,
\* else sleep; leave the loop at the deadline.
HeadFormCheck ==
    /\ hpc = "h_form"
    /\ IF now < hdeadline /\ AliveNodes < ExpectedNodes
          THEN hpc' = "h_form_sleep" /\ hwake' = now + FormInterval
          ELSE hpc' = "h_post" /\ hwake' = hwake
    /\ UNCHANGED <<now, files, headAddr, headAlive, hpos, hdeadline, hexit, clusterOk,
                   joined, hist>>
    /\ UNCHANGED HeadFrame

\* (variant: the address is written again on every pass of the formation wait)
HeadFormWakeRewrites ==
    /\ hpc = "h_form_sleep"
    /\ now >= hwake
    /\ hpc' = "h_write_addr"
    /\ UNCHANGED <<now, files, headAddr, headAlive, hpos, hdeadline, hwake, hexit,
                   clusterOk, joined, hist>>
    /\ UNCHANGED HeadFrame

\* time.sleep(2) returns.
HeadFormWake ==
    /\ hpc = "h_form_sleep"
    /\ now >= hwake
    /\ hpc' = "h_form"
    /\ UNCHANGED <<now, files, headAddr, headAlive, hpos, hdeadline, hwake, hexit,
                   clusterOk, joined, hist>>
    /\ UNCHANGED HeadFrame

\* (variant: a cluster short of nodes after the wait ends the run with an error)
HeadPostFatal ==
    /\ hpc = "h_post"
    /\ clusterOk' = (AliveNodes >= ExpectedNodes /\ TotalGpus >= ExpectedGpus)
    /\ IF clusterOk'
          THEN hpc' = "h_work" /\ hexit' = hexit /\ headAlive' = headAlive
          ELSE hpc' = "h_crashed" /\ hexit' = ExitUncaught /\ headAlive' = FALSE
    /\ hwake' = now + MaxWork
    /\ UNCHANGED <<now, files, headAddr, hpos, hdeadline, joined, hist>>
    /\ UNCHANGED HeadFrame

\* After the wait: nodes = ray.nodes() again, cluster_ok = len(alive) >= 2 and
\* total_gpus >= 4.  The run goes on to the tests whatever the value.
HeadPost ==
    /\ hpc = "h_post"
    /\ clusterOk' = (AliveNodes >= ExpectedNodes /\ TotalGpus >= ExpectedGpus)
    /\ hpc' = "h_work"
    /\ hwake' = now + MaxWork
    /\ UNCHANGED <<now, files, headAddr, headAlive, hpos, hdeadline, hexit, joined, hist>>
    /\ UNCHANGED HeadFrame

\* The tests end (the Ray Train failure is caught) and the summary is printed.
HeadWorkDone ==
    /\ hpc = "h_work"
    /\ hpc' = "h_write_done"
    /\ UNCHANGED <<now, files, headAddr, headAlive, hpos, hdeadline, hwake, hexit,
                   clusterOk, joined, hist>>
    /\ UNCHANGED HeadFrame

\* (variant: the tests run inside try/finally and the finally block shuts the
\* runtime down and calls cleanup())
HeadWorkFailCleans ==
    /\ hpc = "h_work"
    /\ hpc' = "h_clean_addr"
    /\ headAlive' = FALSE
    /\ UNCHANGED <<now, files, headAddr, hpos, hdeadline, hwake, hexit, clusterOk,
                   joined, hist>>
    /\ UNCHANGED HeadFrame

\* A ray.get(...) of the tests raises: nothing catches it, the script ends with a
\* traceback and neither writes the done record nor calls cleanup().
HeadWorkFail ==
    /\ hpc = "h_work"
    /\ hpc' = "h_crashed"
    /\ hexit' = ExitUncaught
    /\ headAlive' = FALSE
    /\ UNCHANGED <<now, files, headAddr, hpos, hdeadline, hwake, clusterOk, joined, hist>>
    /\ UNCHANGED HeadFrame

\* A ray.get(...) of the tests never returns (it is called without a timeout): the
\* head stays up and goes no further.
HeadWorkHangs ==
    /\ hpc = "h_work"
    /\ hpc' = "h_hung"
    /\ UNCHANGED <<now, files, headAddr, headAlive, hpos, hdeadline, hwake, hexit,
                   clusterOk, joined, hist>>
    /\ UNCHANGED HeadFrame

\* write_file(DONE_FILE, "done"): open(path, "w").
HeadOpenDone ==
    /\ hpc = "h_write_done"
    /\ files' = FileOpened(files, DONE_FILE)
    /\ hpos' = 0
    /\ hpc' = "h_flush_done"
    /\ hist' = [hist EXCEPT !.doneWrites = @ + 1]
    /\ UNCHANGED <<now, headAddr, headAlive, hdeadline, hwake, hexit, clusterOk, joined>>
    /\ UNCHANGED HeadFrame

HeadFlushDone ==
    /\ hpc = "h_flush_done"
    /\ hpos < Len(DoneContent)
    /\ \E c \in Chunks(DoneContent, hpos) :
          /\ files' = FileAppended(files, DONE_FILE, c)
          /\ hpos' = hpos + Len(c)
    /\ UNCHANGED <<now, hpc, headAddr, headAlive, hdeadline, hwake, hexit, clusterOk,
                   joined, hist>>
    /\ UNCHANGED HeadFrame

\* write_file returns; time.sleep(5) begins.
HeadCloseDone ==
    /\ hpc = "h_flush_done"
    /\ hpos = Len(DoneContent)
    /\ hpc' = "h_grace"
    /\ hwake' = now + HeadGrace
    /\ hist' = [hist EXCEPT !.doneClose = now]
    /\ UNCHANGED <<now, files, headAddr, headAlive, hpos, hdeadline, hexit, clusterOk, joined>>
    /\ UNCHANGED HeadFrame

\* ray.shutdown() on the head.
HeadShutdown ==
    /\ hpc = "h_grace"
    /\ now >= hwake
    /\ headAlive' = FALSE
    /\ hpc' = "h_clean_addr"
    /\ UNCHANGED <<now, files, headAddr, hpos, hdeadline, hwake, hexit, clusterOk, joined, hist>>
    /\ UNCHANGED HeadFrame

\* cleanup(): os.remove(ADDR_FILE).
HeadCleanAddr ==
    /\ hpc = "h_clean_addr"
    /\ files' = FileRemoved(files, ADDR_FILE)
    /\ hpc' = "h_clean_done"
    /\ hist' = [hist EXCEPT !.removed = @ \cup {ADDR_FILE}, !.addrGone = now]
    /\ UNCHANGED <<now, headAddr, headAlive, hpos, hdeadline, hwake, hexit, clusterOk, joined>>
    /\ UNCHANGED HeadFrame

\* cleanup(): os.remove(DONE_FILE); run_head returns and the script ends.
HeadCleanDone ==
    /\ hpc = "h_clean_done"
    /\ files' = FileRemoved(files, DONE_FILE)
    /\ hpc' = "h_done"
    /\ hexit' = ExitOk
    /\ hist' = [hist EXCEPT !.removed = @ \cup {DONE_FILE}]
    /\ UNCHANGED <<now, headAddr, headAlive, hpos, hdeadline, hwake, clusterOk, joined>>
    /\ UNCHANGED HeadFrame

----------------------------------------------------------------------------
(* poll_file(path, timeout, interval), as run_worker calls it *)

\* (variant: the loop test lets a pass begin at the deadline itself)
PollInTimeInclusive(t, deadline) == t <= deadline

\* (variant: `while True`, a wait with no bound)
PollInTimeAlways(t, deadline) == TRUE

\* `while time.time() < deadline`
PollInTime(t, deadline) == t < deadline

\* `os.path.exists(path)`
PollFound(f) == f.exists

\* `content = f.read().strip()`
PollContent(data) == Strip(data)

\* (variant: the content is returned without the emptiness test)
PollAcceptsAny(content) == TRUE

\* `if content: return content`
PollAccepts(content) == content # <<>>

InAddrWait(w) == wpc[w] \in {"a_poll", "a_read", "a_sleep"}
InDoneWait(w) == wpc[w] \in {"d_poll", "d_read", "d_sleep"}

PollPath(w) == IF InAddrWait(w) THEN ADDR_FILE ELSE DONE_FILE
PollInterval(w) == IF InAddrWait(w) THEN AddrInterval ELSE DoneInterval

WorkerFrame == <<hpc, headAddr, headAlive, hpos, hdeadline, hwake, hexit, clusterOk,
                 files, segVars, storeVars, topoVars, twoHeadVars>>

\* run_worker enters poll_file(ADDR_FILE, timeout=120): deadline = time.time() + timeout.
WorkerStart(w) ==
    /\ wpc[w] = "w_start"
    /\ wpc' = [wpc EXCEPT ![w] = "a_poll"]
    /\ wdeadline' = [wdeadline EXCEPT ![w] = now + AddrTimeout]
    /\ hist' = [hist EXCEPT !.started[w] = now]
    /\ UNCHANGED <<now, joined, wwake, wheld, wexit, wshut>>
    /\ UNCHANGED WorkerFrame

\* (variant: past the deadline poll_file returns None instead of raising)
PollCheckReturnsNone(w) ==
    /\ wpc[w] \in {"a_poll", "d_poll"}
    /\ IF PollInTime(now, wdeadline[w])
          THEN /\ IF PollFound(files[PollPath(w)])
                     THEN /\ wpc' = [wpc EXCEPT ![w] = IF InAddrWait(w) THEN "a_read" ELSE "d_read"]
                          /\ wwake' = wwake
                     ELSE /\ wpc' = [wpc EXCEPT ![w] = IF InAddrWait(w) THEN "a_sleep" ELSE "d_sleep"]
                          /\ wwake' = [wwake EXCEPT ![w] = now + PollInterval(w)]
          ELSE /\ wpc' = [wpc EXCEPT ![w] = IF InAddrWait(w) THEN "w_join" ELSE "w_finally"]
               /\ wwake' = wwake
    /\ hist' = IF InAddrWait(w) /\ PollInTime(now, wdeadline[w])
                  THEN [hist EXCEPT !.lastCheck[w] = now]
                  ELSE hist
    /\ UNCHANGED <<now, joined, wdeadline, wheld, wexit, wshut>>
    /\ UNCHANGED WorkerFrame

\* The loop test and os.path.exists(path).  Past the deadline poll_file raises
\* TimeoutError: nothing catches it in the address wait (the script ends with a
\* traceback); the done wait catches it and goes on to its finally block.
PollCheck(w) ==
    /\ wpc[w] \in {"a_poll", "d_poll"}
    /\ IF PollInTime(now, wdeadline[w])
          THEN /\ IF PollFound(files[PollPath(w)])
                     THEN /\ wpc' = [wpc EXCEPT ![w] = IF InAddrWait(w) THEN "a_read" ELSE "d_read"]
                          /\ wwake' = wwake
                     ELSE /\ wpc' = [wpc EXCEPT ![w] = IF InAddrWait(w) THEN "a_sleep" ELSE "d_sleep"]
                          /\ wwake' = [wwake EXCEPT ![w] = now + PollInterval(w)]
               /\ wexit' = wexit
          ELSE /\ wpc' = [wpc EXCEPT ![w] = IF InAddrWait(w) THEN "w_crashed" ELSE "w_finally"]
               /\ wexit' = [wexit EXCEPT ![w] = IF InAddrWait(w) THEN ExitUncaught ELSE @]
               /\ wwake' = wwake
    /\ hist' = IF ~InAddrWait(w) THEN hist
               ELSE IF PollInTime(now, wdeadline[w])
                  THEN [hist EXCEPT !.lastCheck[w] = now]
                  ELSE [hist EXCEPT !.timedOut = @ \cup {w}]
    /\ UNCHANGED <<now, joined, wdeadline, wheld, wshut>>
    /\ UNCHANGED WorkerFrame

\* (variant: poll_file removes the record it has just read)
PollReadConsumes(w) ==
    /\ wpc[w] \in {"a_read", "d_read"}
    /\ IF ~files[PollPath(w)].exists
          THEN /\ wpc' = [wpc EXCEPT ![w] = IF InAddrWait(w) THEN "w_crashed" ELSE "w_finally_err"]
               /\ wexit' = [wexit EXCEPT ![w] = IF InAddrWait(w) THEN ExitUncaught ELSE @]
               /\ UNCHANGED <<wwake, wheld, hist, files>>
          ELSE IF PollAccepts(PollContent(files[PollPath(w)].data))
          THEN /\ wpc' = [wpc EXCEPT ![w] = IF InAddrWait(w) THEN "w_join" ELSE "w_finally"]
               /\ wheld' = [wheld EXCEPT ![w] =
                               IF InAddrWait(w) THEN PollContent(files[ADDR_FILE].data) ELSE @]
               /\ hist' = IF InAddrWait(w) THEN [hist EXCEPT !.returned[w] = now] ELSE hist
               /\ files' = FileRemoved(files, PollPath(w))
               /\ UNCHANGED <<wwake, wexit>>
          ELSE /\ wpc' = [wpc EXCEPT ![w] = IF InAddrWait(w) THEN "a_sleep" ELSE "d_sleep"]
               /\ wwake' = [wwake EXCEPT ![w] = now + PollInterval(w)]
               /\ UNCHANGED <<wheld, wexit, hist, files>>
    /\ UNCHANGED <<now, joined, wdeadline, wshut>>
    /\ UNCHANGED <<hpc, headAddr, headAlive, hpos, hdeadline, hwake, hexit, clusterOk,
                   segVars, storeVars, topoVars, twoHeadVars>>

\* open(path) and f.read().strip().  A file removed since os.path.exists makes open
\* raise FileNotFoundError, which nothing catches (the done wait still runs finally).
PollRead(w) ==
    /\ wpc[w] \in {"a_read", "d_read"}
    /\ IF ~files[PollPath(w)].exists
          THEN /\ wpc' = [wpc EXCEPT ![w] = IF InAddrWait(w) THEN "w_crashed" ELSE "w_finally_err"]
               /\ wexit' = [wexit EXCEPT ![w] = IF InAddrWait(w) THEN ExitUncaught ELSE @]
               /\ UNCHANGED <<wwake, wheld, hist>>
          ELSE IF PollAccepts(PollContent(files[PollPath(w)].data))
          THEN /\ wpc' = [wpc EXCEPT ![w] = IF InAddrWait(w) THEN "w_join" ELSE "w_finally"]
               /\ wheld' = [wheld EXCEPT ![w] =
                               IF InAddrWait(w) THEN PollContent(files[ADDR_FILE].data) ELSE @]
               /\ hist' = IF InAddrWait(w) THEN [hist EXCEPT !.returned[w] = now] ELSE hist
               /\ UNCHANGED <<wwake, wexit>>
          ELSE /\ wpc' = [wpc EXCEPT ![w] = IF InAddrWait(w) THEN "a_sleep" ELSE "d_sleep"]
               /\ wwake' = [wwake EXCEPT ![w] = now + PollInterval(w)]
               /\ UNCHANGED <<wheld, wexit, hist>>
    /\ UNCHANGED <<now, joined, wdeadline, wshut>>
    /\ UNCHANGED WorkerFrame

\* time.sleep(interval) returns.
PollWake(w) ==
    /\ wpc[w] \in {"a_sleep", "d_sleep"}
    /\ now >= wwake[w]
    /\ wpc' = [wpc EXCEPT ![w] = IF InAddrWait(w) THEN "a_poll" ELSE "d_poll"]
    /\ UNCHANGED <<now, joined, wdeadline, wwake, wheld, wexit, wshut, hist>>
    /\ UNCHANGED WorkerFrame

----------------------------------------------------------------------------
(* run_worker *)

\* ray.init(address=head_addr) connects when a head runtime is up at that address
\* and raises otherwise.
JoinSucceeds(addr) == headAlive /\ addr = headAddr

\* ray.init(address=head_addr), then poll_file(DONE_FILE, timeout=600, interval=5)
\* begins inside try.
WorkerJoin(w) ==
    /\ wpc[w] = "w_join"
    /\ IF JoinSucceeds(wheld[w])
          THEN /\ joined' = joined \cup {w}
               /\ wpc' = [wpc EXCEPT ![w] = "d_poll"]
               /\ wdeadline' = [wdeadline EXCEPT ![w] = now + DoneTimeout]
               /\ hist' = [hist EXCEPT !.joinedAt[w] = now]
               /\ wexit' = wexit
          ELSE /\ wpc' = [wpc EXCEPT ![w] = "w_crashed"]
               /\ wexit' = [wexit EXCEPT ![w] = ExitUncaught]
               /\ UNCHANGED <<joined, wdeadline, hist>>
    /\ UNCHANGED <<now, wwake, wheld, wshut>>
    /\ UNCHANGED WorkerFrame

\* (variant: ray.shutdown() follows poll_file inside the try block, there is no
\* finally block)
WorkerShutdownInTry(w) ==
    /\ wpc[w] \in {"w_finally", "w_finally_err"}
    /\ joined' = IF hist.doneClose # Never /\ wpc[w] = "w_finally" THEN joined \ {w} ELSE joined
    /\ wshut' = [wshut EXCEPT ![w] =
                     IF hist.doneClose # Never /\ wpc[w] = "w_finally" THEN @ + 1 ELSE @]
    /\ wpc' = [wpc EXCEPT ![w] = IF wpc[w] = "w_finally" THEN "w_done" ELSE "w_crashed"]
    /\ wexit' = [wexit EXCEPT ![w] = IF wpc[w] = "w_finally" THEN ExitOk ELSE ExitUncaught]
    /\ UNCHANGED <<now, wdeadline, wwake, wheld, hist>>
    /\ UNCHANGED WorkerFrame

\* (variant: no except clause; the error of the done wait leaves the script after
\* the finally block)
WorkerFinallyReraises(w) ==
    /\ wpc[w] \in {"w_finally", "w_finally_err"}
    /\ joined' = joined \ {w}
    /\ wshut' = [wshut EXCEPT ![w] = @ + 1]
    /\ wpc' = [wpc EXCEPT ![w] =
                   IF wpc[w] = "w_finally" /\ hist.doneClose # Never
                      THEN "w_done" ELSE "w_crashed"]
    /\ wexit' = [wexit EXCEPT ![w] =
                     IF wpc[w] = "w_finally" /\ hist.doneClose # Never
                        THEN ExitOk ELSE ExitUncaught]
    /\ UNCHANGED <<now, wdeadline, wwake, wheld, hist>>
    /\ UNCHANGED WorkerFrame

\* finally: ray.shutdown().  After the done record or the caught TimeoutError the
\* script runs to its end; an exception still in flight ends it with a traceback.
WorkerFinally(w) ==
    /\ wpc[w] \in {"w_finally", "w_finally_err"}
    /\ joined' = joined \ {w}
    /\ wshut' = [wshut EXCEPT ![w] = @ + 1]
    /\ wpc' = [wpc EXCEPT ![w] = IF wpc[w] = "w_finally" THEN "w_done" ELSE "w_crashed"]
    /\ wexit' = [wexit EXCEPT ![w] = IF wpc[w] = "w_finally" THEN ExitOk ELSE ExitUncaught]
    /\ UNCHANGED <<now, wdeadline, wwake, wheld, hist>>
    /\ UNCHANGED WorkerFrame

----------------------------------------------------------------------------
(* The clock of the rendezvous *)

HeadUrgent ==
    \/ hpc \in {"h_write_addr", "h_flush_addr", "h_form", "h_post", "h_write_done",
                "h_flush_done", "h_clean_addr", "h_clean_done"}
    \/ hpc = "h_start" /\ now >= MaxStart
    \/ hpc \in {"h_form_sleep", "h_work", "h_grace"} /\ now >= hwake

HeadWaiting == hpc \in {"h_start", "h_form_sleep", "h_work", "h_grace"}

WorkerUrgent(w) ==
    \/ wpc[w] \in {"a_poll", "a_read", "d_poll", "d_read", "w_join", "w_finally",
                   "w_finally_err"}
    \/ wpc[w] = "w_start" /\ now >= MaxStart
    \/ wpc[w] \in {"a_sleep", "d_sleep"} /\ now >= wwake[w]

WorkerWaiting(w) == wpc[w] \in {"w_start", "a_sleep", "d_sleep"}

RdvTick ==
    /\ ~HeadUrgent
    /\ \A w \in Workers : ~WorkerUrgent(w)
    /\ HeadWaiting \/ \E w \in Workers : WorkerWaiting(w)
    /\ now' = now + 1
    /\ UNCHANGED rdvVars
    /\ UNCHANGED segVars
    /\ UNCHANGED storeVars
    /\ UNCHANGED topoVars
    /\ UNCHANGED twoHeadVars

----------------------------------------------------------------------------
(* The segment variables when no segment runs (the rendezvous is checked alone). *)

SegIdle ==
    /\ spc = "s_none"
    /\ si = 0
    /\ swake = 0
    /\ sprior = 0
    /\ srequested = 0
    /\ sstart = 0
    /\ sframes = <<>>
    /\ sout = <<>>
    /\ sexit = NoExit
    /\ ssig = <<>>

\* The job ids (SLURM_JOB_ID) that share SHARED_DIR, and the records of one job:
\* os.path.join(SHARED_DIR, f"{SLURM_JOB_ID}.addr") and f"{SLURM_JOB_ID}.done".
Jobs == {"7", "42"}
StorePath(job, key) == <<job, key>>
StorePaths == { StorePath(j, k) : j \in Jobs, k \in Paths }

NeverWritten == [state |-> "never", value |-> <<>>]
NoOp == [op |-> "none", job |-> "", key |-> "", value |-> <<>>,
         result |-> [kind |-> "none", value |-> <<>>], again |-> FALSE]

\* The store variables when the store functions are not checked on their own.
StoreIdle ==
    /\ stfiles = [p \in StorePaths |-> AbsentFile]
    /\ stlocked = {}
    /\ stlatest = [p \in StorePaths |-> NeverWritten]
    /\ stop = NoOp

\* The topology variables when no training script runs.
TopoIdle ==
    /\ tworld = 0
    /\ thost = <<>>
    /\ tmaster = <<>>
    /\ tpc = <<>>
    /\ tr = <<>>
    /\ tsent = <<>>
    /\ tnames = <<>>
    /\ tlog = <<>>
    /\ tres = <<>>

\* The variables of the two-head run when a job has one head.
TwoHeadsIdle ==
    /\ dpc = <<>>
    /\ daddr = <<>>
    /\ dpos = <<>>
    /\ dclosed = <<>>
    /\ dpolled = <<>>

----------------------------------------------------------------------------
(* The rendezvous of one job: rank 0 runs run_head, every other rank run_worker. *)

RdvInit ==
    /\ now = 0
    /\ files = [p \in Paths |-> AbsentFile]
    /\ hpc = "h_start"
    /\ headAddr = <<>>
    /\ headAlive = FALSE
    /\ hpos = 0
    /\ hdeadline = 0
    /\ hwake = 0
    /\ hexit = NoExit
    /\ clusterOk = FALSE
    /\ joined = {}
    /\ wpc = [w \in Workers |-> "w_start"]
    /\ wdeadline = [w \in Workers |-> 0]
    /\ wwake = [w \in Workers |-> 0]
    /\ wheld = [w \in Workers |-> <<>>]
    /\ wexit = [w \in Workers |-> NoExit]
    /\ wshut = [w \in Workers |-> 0]
    /\ hist = HistInit
    /\ SegIdle
    /\ StoreIdle
    /\ TopoIdle
    /\ TwoHeadsIdle

HeadNext ==
    \/ HeadInit \/ HeadInitFail
    \/ HeadOpenAddr \/ HeadFlushAddr \/ HeadCloseAddr
    \/ HeadFormCheck \/ HeadFormWake \/ HeadPost
    \/ HeadWorkDone \/ HeadWorkFail \/ HeadWorkHangs
    \/ HeadOpenDone \/ HeadFlushDone \/ HeadCloseDone
    \/ HeadShutdown \/ HeadCleanAddr \/ HeadCleanDone

WorkerNext(w) ==
    \/ WorkerStart(w) \/ PollCheck(w) \/ PollRead(w) \/ PollWake(w)
    \/ WorkerJoin(w) \/ WorkerFinally(w)

\* `if SLURM_PROCID == 0: run_head() else: run_worker()`
Role(procid) == IF procid = 0 THEN "run_head" ELSE "run_worker"

RdvNext == HeadNext \/ (\E w \in Workers : WorkerNext(w)) \/ RdvTick

SpecRdv == RdvInit /\ [][RdvNext]_vars

\* The rendezvous variables when no rendezvous runs (another part is checked alone).
RdvIdle ==
    /\ files = [p \in Paths |-> AbsentFile]
    /\ hpc = "h_none"
    /\ headAddr = <<>>
    /\ headAlive = FALSE
    /\ hpos = 0
    /\ hdeadline = 0
    /\ hwake = 0
    /\ hexit = NoExit
    /\ clusterOk = FALSE
    /\ joined = {}
    /\ wpc = [w \in Workers |-> "w_none"]
    /\ wdeadline = [w \in Workers |-> 0]
    /\ wwake = [w \in Workers |-> 0]
    /\ wheld = [w \in Workers |-> <<>>]
    /\ wexit = [w \in Workers |-> NoExit]
    /\ wshut = [w \in Workers |-> 0]
    /\ hist = HistInit

----------------------------------------------------------------------------
(* write_file, poll_file and cleanup on their own: calls made one after     *)
(* another, by the processes of several jobs, on a store nobody else        *)
(* changes meanwhile.                                                       *)

\* The contents a caller may hand to write_file: connection strings, the empty
\* string, and strings with white space around them.
StoreValues == HeadAddrs \cup { <<>>, <<"b", "\n">> }

\* (variant: the file is opened with mode "a")
FileWrittenAppending(fs, path, content) == FileAppended(fs, path, content)

\* write_file(path, content), from open to close.
FileWritten(fs, path, content) == FileAppended(FileOpened(fs, path), path, content)

NoValue == [kind |-> "timeout", value |-> <<>>]

\* poll_file(path) on an unchanging file: the content when the file exists and
\* its stripped content is non-empty; otherwise every pass sleeps and the call
\* ends by raising TimeoutError.
PollResult(f) ==
    IF PollFound(f) /\ PollAccepts(PollContent(f.data))
       THEN [kind |-> "value", value |-> PollContent(f.data)]
       ELSE NoValue

\* os.remove(path): the error it raises, "" when it removes the file.
RemoveError(fs, locked, path) ==
    IF ~fs[path].exists THEN "FileNotFoundError"
    ELSE IF path \in locked THEN "PermissionError"
    ELSE ""

\* (variant: the handler of cleanup is `except FileNotFoundError`)
CaughtOnlyNotFound(err) == err = "FileNotFoundError"

\* `except OSError: pass`
Caught(err) == err \in {"FileNotFoundError", "PermissionError"}

\* One pass of `for f in [ADDR_FILE, DONE_FILE]` of cleanup().
RemoveQuietly(fs, locked, path) ==
    IF RemoveError(fs, locked, path) = "" THEN FileRemoved(fs, path) ELSE fs

\* The passes cleanup() makes before an error leaves it, and the store they leave.
CleanupRaises(fs, locked, job) ==
    LET e1 == RemoveError(fs, locked, StorePath(job, ADDR_FILE))
        f1 == RemoveQuietly(fs, locked, StorePath(job, ADDR_FILE))
        e2 == RemoveError(f1, locked, StorePath(job, DONE_FILE))
    IN  (e1 # "" /\ ~Caught(e1)) \/ (e2 # "" /\ ~Caught(e2))

CleanedUp(fs, locked, job) ==
    LET e1 == RemoveError(fs, locked, StorePath(job, ADDR_FILE))
        f1 == RemoveQuietly(fs, locked, StorePath(job, ADDR_FILE))
    IN  IF e1 # "" /\ ~Caught(e1) THEN fs
        ELSE RemoveQuietly(f1, locked, StorePath(job, DONE_FILE))

StoreFrame == <<now, rdvVars, segVars, stlocked, topoVars, twoHeadVars>>

\* A process of job `job` calls write_file(path of `key`, v).
StoreWrite(job, key, v) ==
    /\ stfiles' = FileWritten(stfiles, StorePath(job, key), v)
    /\ stlatest' = [stlatest EXCEPT ![StorePath(job, key)] =
                        [state |-> "written", value |-> v]]
    /\ stop' = [op |-> "write", job |-> job, key |-> key, value |-> v,
                result |-> [kind |-> "returned", value |-> <<>>], again |-> FALSE]
    /\ UNCHANGED StoreFrame

\* A process of job `job` calls poll_file(path of `key`).
StorePoll(job, key) ==
    /\ stop' = [op |-> "poll", job |-> job, key |-> key, value |-> <<>>,
                result |-> PollResult(stfiles[StorePath(job, key)]), again |-> FALSE]
    /\ UNCHANGED <<stfiles, stlatest>>
    /\ UNCHANGED StoreFrame

\* A process of job `job` calls cleanup().
StoreCleanup(job) ==
    /\ stfiles' = CleanedUp(stfiles, stlocked, job)
    /\ stlatest' = [p \in StorePaths |->
                        IF stfiles[p].exists /\ ~stfiles'[p].exists
                           THEN [state |-> "removed", value |-> <<>>]
                           ELSE stlatest[p]]
    /\ stop' = [op |-> "cleanup", job |-> job, key |-> "", value |-> <<>>,
                result |-> [kind |-> IF CleanupRaises(stfiles, stlocked, job)
                                        THEN "raised" ELSE "returned",
                            value |-> <<>>],
                again |-> (stop.op = "cleanup" /\ stop.job = job)]
    /\ UNCHANGED StoreFrame

\* The store is empty when the first job starts; some path may be one that
\* os.remove cannot remove.
StoreInit ==
    /\ now = 0
    /\ RdvIdle
    /\ SegIdle
    /\ TopoIdle
    /\ TwoHeadsIdle
    /\ stfiles = [p \in StorePaths |-> AbsentFile]
    /\ stlocked \in { {} } \cup { {p} : p \in StorePaths }
    /\ stlatest = [p \in StorePaths |-> NeverWritten]
    /\ stop = NoOp

StoreNext ==
    \/ \E j \in Jobs, k \in Paths, v \in StoreValues : StoreWrite(j, k, v)
    \/ \E j \in Jobs, k \in Paths : StorePoll(j, k)
    \/ \E j \in Jobs : StoreCleanup(j)

SpecStore == StoreInit /\ [][StoreNext]_vars

----------------------------------------------------------------------------
(* Two processes of one job that both run run_head (both were given         *)
(* SLURM_PROCID 0): each writes its own head_addr to the same ADDR_FILE.    *)
(* Each open(path, "w") truncates the file and gives the process a file     *)
(* offset of its own, starting at 0; each write puts its characters at the  *)
(* offset of the writing process.                                           *)

Heads == {1, 2}

\* The character a gap is filled with when a write lands past the end of the file.
NUL == "NUL"

\* write(2) of `chunk` at offset `pos` of a file holding `data`.
WrittenAt(data, pos, chunk) ==
    LET base == IF Len(data) >= pos THEN data
                ELSE data \o [k \in 1..(pos - Len(data)) |-> NUL]
        end == IF Len(base) >= pos + Len(chunk) THEN Len(base) ELSE pos + Len(chunk)
    IN  [k \in 1..end |-> IF k > pos /\ k <= pos + Len(chunk) THEN chunk[k - pos]
                                                               ELSE base[k]]

FileWrittenAt(fs, path, pos, chunk) ==
    [fs EXCEPT ![path] = [exists |-> TRUE, data |-> WrittenAt(fs[path].data, pos, chunk)]]

TwoHeadsFrame ==
    <<now, hpc, headAddr, headAlive, hpos, hdeadline, hwake, hexit, clusterOk, joined,
      wpc, wdeadline, wwake, wheld, wexit, wshut, hist, segVars, storeVars, topoVars,
      daddr>>

\* write_file(ADDR_FILE, head_addr) on head h: open(path, "w").
TwoHeadsOpen(h) ==
    /\ dpc[h] = "h_write_addr"
    /\ files' = FileOpened(files, ADDR_FILE)
    /\ dpos' = [dpos EXCEPT ![h] = 0]
    /\ dpc' = [dpc EXCEPT ![h] = "h_flush_addr"]
    /\ UNCHANGED <<dclosed, dpolled>>
    /\ UNCHANGED TwoHeadsFrame

\* f.write(content) and the flush on close, on head h.
TwoHeadsFlush(h) ==
    /\ dpc[h] = "h_flush_addr"
    /\ dpos[h] < Len(daddr[h])
    /\ \E c \in Chunks(daddr[h], dpos[h]) :
          /\ files' = FileWrittenAt(files, ADDR_FILE, dpos[h], c)
          /\ dpos' = [dpos EXCEPT ![h] = @ + Len(c)]
    /\ UNCHANGED <<dpc, dclosed, dpolled>>
    /\ UNCHANGED TwoHeadsFrame

\* write_file returns on head h, which goes on to its formation wait.
TwoHeadsClose(h) ==
    /\ dpc[h] = "h_flush_addr"
    /\ dpos[h] = Len(daddr[h])
    /\ dpc' = [dpc EXCEPT ![h] = "h_form"]
    /\ dclosed' = Append(dclosed, h)
    /\ UNCHANGED <<files, dpos, dpolled>>
    /\ UNCHANGED TwoHeadsFrame

\* A worker calls poll_file(ADDR_FILE) after both write_file calls returned.
TwoHeadsPoll ==
    /\ Len(dclosed) = Cardinality(Heads)
    /\ dpolled = <<>>
    /\ dpolled' = << PollResult(files[ADDR_FILE]) >>
    /\ UNCHANGED <<files, dpc, dpos, dclosed>>
    /\ UNCHANGED TwoHeadsFrame

\* Both heads are past ray.init(), each with the address of its own runtime.
TwoHeadsInit ==
    /\ now = 0
    /\ RdvIdle
    /\ SegIdle
    /\ StoreIdle
    /\ TopoIdle
    /\ dpc = [h \in Heads |-> "h_write_addr"]
    /\ daddr \in [Heads -> HeadAddrs]
    /\ dpos = [h \in Heads |-> 0]
    /\ dclosed = <<>>
    /\ dpolled = <<>>

TwoHeadsNext ==
    \/ \E h \in Heads : TwoHeadsOpen(h)
    \/ \E h \in Heads : TwoHeadsFlush(h)
    \/ \E h \in Heads : TwoHeadsClose(h)
    \/ TwoHeadsPoll

SpecTwoHeads == TwoHeadsInit /\ [][TwoHeadsNext]_vars

----------------------------------------------------------------------------
(* long_train.py: one segment of a resumable task.  The segment's clock    *)
(* counts ticks of 1/TicksPerSecond second.                                *)

\* The values RV_TOTAL_ELAPSED and RV_TOTAL_REQUESTED may carry.
PriorChoices == {0, 1, 300}
RequestedChoices == {600}

HandledSignals == {SIGUSR1, SIGTERM}

\* format(x, ".0f") of x = n / d, n >= 0: the nearest whole number, ties to even.
Fmt0(n, d) ==
    LET q == n \div d
        r == n % d
    IN  IF 2 * r < d THEN q
        ELSE IF 2 * r > d THEN q + 1
        ELSE IF q % 2 = 0 THEN q ELSE q + 1

\* `time.time() - segment_start`, in ticks
Elapsed(t, start) == t - start

\* The line `Received signal {signum} after {elapsed:.0f}s in this segment`
ReceivedLine(signum, elapsed) ==
    [kind |-> "received", signum |-> signum, secs |-> Fmt0(elapsed, TicksPerSecond)]

\* (variant: the total leaves out the elapsed time inherited from earlier segments)
TotalLineSegmentOnly(prior, elapsed, requested) ==
    [kind |-> "total", secs |-> Fmt0(elapsed, TicksPerSecond), requested |-> requested]

\* The line `Total elapsed: {total_elapsed + elapsed:.0f}s / {total_requested}s`
TotalLine(prior, elapsed, requested) ==
    [kind |-> "total", secs |-> Fmt0(prior * TicksPerSecond + elapsed, TicksPerSecond),
     requested |-> requested]

\* (variant: the progress line of the work loop is printed as a resume record)
WorkingLineAsTotal(i, prior) == [kind |-> "total", secs |-> i, total |-> prior + i]

\* The line `Working... {i}s elapsed in this segment, {total_elapsed + i}s total`
WorkingLine(i, prior) == [kind |-> "working", secs |-> i, total |-> prior + i]

\* The traceback the interpreter prints for an uncaught exception.
Traceback == [kind |-> "traceback"]

SegFrame == <<files, hpc, headAddr, headAlive, hpos, hdeadline, hwake, hexit,
              clusterOk, joined, wpc, wdeadline, wwake, wheld, wexit, wshut, hist,
              storeVars, topoVars, twoHeadVars>>

SegRunning == spc \in {"s_sleep", "s_body"}

InHandler == sframes # <<>>

Top == sframes[Len(sframes)]

SetTop(f) == [sframes EXCEPT ![Len(sframes)] = f]

\* The scheduler raises SIGUSR1 or SIGTERM: the interpreter calls handle_signal in
\* the main thread, on top of whatever is running (the work loop, or a
\* handle_signal call already in progress).
Deliver(sig) ==
    /\ SegRunning
    /\ Len(ssig) < MaxSignals
    /\ sframes' = Append(sframes, [pc |-> "l8", signum |-> sig, elapsed |-> 0])
    /\ ssig' = Append(ssig, [signum |-> sig, at |-> now])
    /\ UNCHANGED <<now, spc, si, swake, sprior, srequested, sstart, sout, sexit>>
    /\ UNCHANGED SegFrame

\* handle_signal, line 8: elapsed = time.time() - segment_start
HandlerElapsed ==
    /\ SegRunning /\ InHandler
    /\ Top.pc = "l8"
    /\ sframes' = SetTop([Top EXCEPT !.pc = "l9", !.elapsed = Elapsed(now, sstart)])
    /\ UNCHANGED <<now, spc, si, swake, sprior, srequested, sstart, sout, sexit, ssig>>
    /\ UNCHANGED SegFrame

\* handle_signal, lines 9 and 10: the two print calls.
HandlerPrint ==
    /\ SegRunning /\ InHandler
    /\ Top.pc \in {"l9", "l10"}
    /\ sout' = Append(sout, IF Top.pc = "l9"
                               THEN ReceivedLine(Top.signum, Top.elapsed)
                               ELSE TotalLine(sprior, Top.elapsed, srequested))
    /\ sframes' = SetTop([Top EXCEPT !.pc = IF Top.pc = "l9" THEN "l10" ELSE "l11"])
    /\ UNCHANGED <<now, spc, si, swake, sprior, srequested, sstart, sexit, ssig>>
    /\ UNCHANGED SegFrame

\* A print call of handle_signal raises (the stream is closed, or the signal came
\* inside a print of the work loop): the exception leaves every handle_signal call
\* and the script, which ends with a traceback.
HandlerPrintRaises ==
    /\ SegRunning /\ InHandler
    /\ Top.pc \in {"l9", "l10"}
    /\ sframes' = <<>>
    /\ spc' = "s_crashed"
    /\ sexit' = ExitUncaught
    /\ sout' = Append(sout, Traceback)
    /\ UNCHANGED <<now, si, swake, sprior, srequested, sstart, ssig>>
    /\ UNCHANGED SegFrame

\* (variant: handle_signal returns after its prints, without sys.exit)
HandlerReturns ==
    /\ SegRunning /\ InHandler
    /\ Top.pc = "l11"
    /\ sframes' = SubSeq(sframes, 1, Len(sframes) - 1)
    /\ UNCHANGED <<now, spc, si, swake, sprior, srequested, sstart, sout, sexit, ssig>>
    /\ UNCHANGED SegFrame

\* handle_signal, line 11: sys.exit(1).  SystemExit leaves every handle_signal call
\* and the script.
HandlerExit ==
    /\ SegRunning /\ InHandler
    /\ Top.pc = "l11"
    /\ sframes' = <<>>
    /\ spc' = "s_resume"
    /\ sexit' = ResumeCode
    /\ UNCHANGED <<now, si, swake, sprior, srequested, sstart, sout, ssig>>
    /\ UNCHANGED SegFrame

\* The work loop, line 22: time.sleep(1) returns.
LoopWake ==
    /\ spc = "s_sleep" /\ ~InHandler
    /\ now >= swake
    /\ spc' = "s_body"
    /\ UNCHANGED <<now, si, swake, sprior, srequested, sstart, sframes, sout, sexit, ssig>>
    /\ UNCHANGED SegFrame

\* (variant: every pass of the work loop adds its second to total_elapsed)
LoopBodyAccumulates ==
    /\ spc = "s_body" /\ ~InHandler
    /\ sout' = IF si % PrintEvery = 0 THEN Append(sout, WorkingLine(si, sprior)) ELSE sout
    /\ sprior' = sprior + 1
    /\ IF si + 1 < Iterations
          THEN /\ si' = si + 1
               /\ spc' = "s_sleep"
               /\ swake' = now + TicksPerSecond
               /\ sexit' = sexit
          ELSE /\ si' = si
               /\ spc' = "s_done"
               /\ swake' = swake
               /\ sexit' = ExitOk
    /\ UNCHANGED <<now, srequested, sstart, sframes, ssig>>
    /\ UNCHANGED SegFrame

\* The work loop, lines 23-24 and the next pass of `for i in range(..)`; after the
\* last pass the script ends.
LoopBody ==
    /\ spc = "s_body" /\ ~InHandler
    /\ sout' = IF si % PrintEvery = 0 THEN Append(sout, WorkingLine(si, sprior)) ELSE sout
    /\ IF si + 1 < Iterations
          THEN /\ si' = si + 1
               /\ spc' = "s_sleep"
               /\ swake' = now + TicksPerSecond
               /\ sexit' = sexit
          ELSE /\ si' = si
               /\ spc' = "s_done"
               /\ swake' = swake
               /\ sexit' = ExitOk
    /\ UNCHANGED <<now, sprior, srequested, sstart, sframes, ssig>>
    /\ UNCHANGED SegFrame

\* The segment's clock advances while the script sleeps and no handler runs.
SegTick ==
    /\ spc = "s_sleep" /\ ~InHandler
    /\ now < swake
    /\ now' = now + 1
    /\ UNCHANGED segVars
    /\ UNCHANGED SegFrame

\* Lines 3-14 have run: the environment is read, segment_start is taken, the
\* handlers are installed, and the work loop is in its first sleep.
SegInit ==
    /\ now = 0
    /\ RdvIdle
    /\ StoreIdle
    /\ TopoIdle
    /\ TwoHeadsIdle
    /\ spc = "s_sleep"
    /\ si = 0
    /\ swake = TicksPerSecond
    /\ sprior \in PriorChoices
    /\ srequested \in RequestedChoices
    /\ sstart = 0
    /\ sframes = <<>>
    /\ sout = <<>>
    /\ sexit = NoExit
    /\ ssig = <<>>

SegNext ==
    \/ \E sig \in HandledSignals : Deliver(sig)
    \/ HandlerElapsed \/ HandlerPrint \/ HandlerPrintRaises \/ HandlerExit
    \/ LoopWake \/ LoopBody
    \/ SegTick

SpecSeg == SegInit /\ [][SegNext]_vars

----------------------------------------------------------------------------
(* check_topology(rank, world_size, local_rank) of tier2-multinode-ddp/     *)
(* train.py, run by every rank of one job.  Characters are byte values;     *)
(* 0 is the padding of the hostname tensor.                                 *)

MaxWorld == 4          \* largest world_size
TensorLen == 3         \* length of the hostname tensor (256 in the run)

\* The host names the nodes may have (shorter than the tensor), one a prefix of
\* another, and the values MASTER_ADDR may have: a host name, or an address that
\* is no host name.
HostNames == { <<1>>, <<1, 2>>, <<2>> }
MasterAddrs == HostNames \cup { <<3>> }

Ranks == 0..(tworld - 1)

\* hostname.encode()[:256], copied into a zero tensor of length 256
Encode(name) ==
    [k \in 1..TensorLen |-> IF k <= Len(name) THEN name[k] ELSE 0]

RECURSIVE RStripZero(_)
RStripZero(t) ==
    IF t # <<>> /\ t[Len(t)] = 0 THEN RStripZero(SubSeq(t, 1, Len(t) - 1)) ELSE t

\* bytes(t.tolist()).rstrip(b"\x00").decode()
Decode(t) == RStripZero(t)

\* (variant: the tensors come back in the reverse of rank order)
GatheredReversed(sent, n) == [k \in 1..n |-> sent[n - k]]

\* dist.all_gather(all_hostnames, hostname_tensor): the tensors of all ranks, in
\* rank order.
Gathered(sent, n) == [k \in 1..n |-> sent[k - 1]]

\* The order of Python strings.
RECURSIVE LexLess(_, _)
LexLess(a, b) ==
    IF a = <<>> THEN b # <<>>
    ELSE IF b = <<>> THEN FALSE
    ELSE IF a[1] # b[1] THEN a[1] < b[1]
    ELSE LexLess(Tail(a), Tail(b))

\* sorted(S)
RECURSIVE SortedList(_)
SortedList(S) ==
    IF S = {} THEN <<>>
    ELSE LET m == CHOOSE x \in S : \A y \in S \ {x} : LexLess(x, y)
         IN  <<m>> \o SortedList(S \ {m})

\* set(hostnames)
NameSet(names) == { names[k] : k \in DOMAIN names }

\* `a in b` for strings
Contains(b, a) ==
    \E k \in 0..(Len(b) - Len(a)) : SubSeq(b, k + 1, k + Len(a)) = a

\* (variant: the allocation counts as multi-node from one host on)
IsMultiNodeFromOne(unique) == Len(unique) >= 1

\* `len(unique_hosts) > 1`
IsMultiNode(unique) == Len(unique) > 1

\* (variant: the address is compared with the hostname of every rank)
MasterAddrCorrectAnyRank(master, names) ==
    \E k \in DOMAIN names : Contains(names[k], master) \/ Contains(master, names[k])

\* `master_addr in hostnames[0] or hostnames[0] in master_addr`
MasterAddrCorrect(master, names) ==
    Contains(names[1], master) \/ Contains(master, names[1])

\* The results rank 0 builds, lines 51-79.
TopologyResults(names, master) ==
    LET unique_hosts == SortedList(NameSet(names))
    IN  [ unique_hosts |-> Len(unique_hosts),
          hostnames |-> unique_hosts,
          is_multi_node |-> IsMultiNode(unique_hosts),
          master_addr |-> master,
          master_addr_correct |-> MasterAddrCorrect(master, names) ]

\* The results of the other ranks: `results = {}`.
NoResults == [ unique_hosts |-> 0, hostnames |-> <<>>, is_multi_node |-> FALSE,
               master_addr |-> <<>>, master_addr_correct |-> FALSE ]

\* The lines of the log stream.
RankLine(q) == [kind |-> "rank", rank |-> q, nodes |-> 0]
MasterLine(ok) == [kind |-> IF ok THEN "master_passed" ELSE "master_failed",
                   rank |-> 0, nodes |-> 0]
VerdictLine(res) ==
    [kind |-> IF res.is_multi_node THEN "multi_node_passed" ELSE "single_node_warning",
     rank |-> 0, nodes |-> res.unique_hosts]

TopoFrame == <<now, rdvVars, segVars, storeVars, tworld, thost, tmaster, twoHeadVars>>

\* Lines 27-34: rank q encodes its hostname and enters dist.all_gather.
GatherSend(q) ==
    /\ tpc[q] = "t_start"
    /\ tsent' = [tsent EXCEPT ![q] = Encode(thost[q])]
    /\ tpc' = [tpc EXCEPT ![q] = "t_gather"]
    /\ UNCHANGED <<tr, tnames, tlog, tres>>
    /\ UNCHANGED TopoFrame

\* Every rank has entered dist.all_gather.
GatherComplete == \A p \in Ranks : tsent[p] # <<>>

\* dist.all_gather returns on rank q once every rank has contributed; lines 36-39
\* decode the tensors into hostnames.
GatherReturn(q) ==
    /\ tpc[q] = "t_gather"
    /\ GatherComplete
    /\ tnames' = [tnames EXCEPT ![q] =
                      [k \in 1..tworld |-> Decode(Gathered(tsent, tworld)[k])]]
    /\ tpc' = [tpc EXCEPT ![q] = "t_loop"]
    /\ UNCHANGED <<tr, tsent, tlog, tres>>
    /\ UNCHANGED TopoFrame

\* (variant: dist.barrier() stands inside the `if rank == r` block, so a rank
\* that has nothing to print goes on to its next pass without a barrier call)
LoopTurnBarrierInIf(q) ==
    /\ tpc[q] = "t_loop"
    /\ IF q = tr[q]
          THEN /\ tlog' = Append(tlog, RankLine(q))
               /\ tpc' = [tpc EXCEPT ![q] = "t_barrier"]
               /\ tr' = tr
          ELSE /\ tlog' = tlog
               /\ tpc' = [tpc EXCEPT ![q] = IF tr[q] + 1 < tworld THEN "t_loop"
                                                                 ELSE "t_summary"]
               /\ tr' = [tr EXCEPT ![q] = @ + 1]
    /\ UNCHANGED <<tsent, tnames, tres>>
    /\ UNCHANGED TopoFrame

\* Lines 42-49, one pass of `for r in range(world_size)`: when r is its own rank,
\* rank q prints its line; in any other pass it goes straight to dist.barrier().
LoopTurn(q) ==
    /\ tpc[q] = "t_loop"
    /\ tlog' = IF q = tr[q] THEN Append(tlog, RankLine(q)) ELSE tlog
    /\ tpc' = [tpc EXCEPT ![q] = IF q = tr[q] THEN "t_barrier" ELSE "t_wait"]
    /\ UNCHANGED <<tr, tsent, tnames, tres>>
    /\ UNCHANGED TopoFrame

\* Line 49: rank q calls dist.barrier() after its print.
BarrierCall(q) ==
    /\ tpc[q] = "t_barrier"
    /\ tpc' = [tpc EXCEPT ![q] = "t_wait"]
    /\ UNCHANGED <<tr, tsent, tnames, tlog, tres>>
    /\ UNCHANGED TopoFrame

\* The dist.barrier() calls rank p has made in the loop so far.
BarrierCalls(p) == tr[p] + (IF tpc[p] = "t_wait" THEN 1 ELSE 0)

\* (variant: the barrier lets a rank through without waiting for the others)
BarrierReturnAlone(q) ==
    /\ tpc[q] = "t_wait"
    /\ tr' = [tr EXCEPT ![q] = @ + 1]
    /\ tpc' = [tpc EXCEPT ![q] = IF tr[q] + 1 < tworld THEN "t_loop" ELSE "t_summary"]
    /\ UNCHANGED <<tsent, tnames, tlog, tres>>
    /\ UNCHANGED TopoFrame

\* Every rank has made the dist.barrier() call rank q is waiting in.
BarrierComplete(q) == \A p \in Ranks : BarrierCalls(p) >= tr[q] + 1

\* dist.barrier() returns on rank q once every rank has made the same call; the
\* loop goes to its next pass, or ends.
BarrierReturn(q) ==
    /\ tpc[q] = "t_wait"
    /\ BarrierComplete(q)
    /\ tr' = [tr EXCEPT ![q] = @ + 1]
    /\ tpc' = [tpc EXCEPT ![q] = IF tr[q] + 1 < tworld THEN "t_loop" ELSE "t_summary"]
    /\ UNCHANGED <<tsent, tnames, tlog, tres>>
    /\ UNCHANGED TopoFrame

\* Lines 51-81: rank 0 builds the results and prints the summary; every rank
\* returns its results.
Summary(q) ==
    /\ tpc[q] = "t_summary"
    /\ IF q = 0
          THEN /\ tres' = [tres EXCEPT ![q] = TopologyResults(tnames[q], tmaster)]
               /\ tlog' = tlog \o << MasterLine(tres'[q].master_addr_correct),
                                     VerdictLine(tres'[q]) >>
          ELSE /\ tres' = [tres EXCEPT ![q] = NoResults]
               /\ tlog' = tlog
    /\ tpc' = [tpc EXCEPT ![q] = "t_done"]
    /\ UNCHANGED <<tr, tsent, tnames>>
    /\ UNCHANGED TopoFrame

\* The process group of one job is up: world_size ranks, each on some host.
TopoInit ==
    /\ now = 0
    /\ RdvIdle
    /\ SegIdle
    /\ StoreIdle
    /\ TwoHeadsIdle
    /\ tworld \in 1..MaxWorld
    /\ thost \in [0..(tworld - 1) -> HostNames]
    /\ tmaster \in MasterAddrs
    /\ tpc = [q \in 0..(tworld - 1) |-> "t_start"]
    /\ tr = [q \in 0..(tworld - 1) |-> 0]
    /\ tsent = [q \in 0..(tworld - 1) |-> <<>>]
    /\ tnames = [q \in 0..(tworld - 1) |-> <<>>]
    /\ tlog = <<>>
    /\ tres = [q \in 0..(tworld - 1) |-> NoResults]

TopoNext ==
    \/ \E q \in Ranks : GatherSend(q)
    \/ \E q \in Ranks : GatherReturn(q)
    \/ \E q \in Ranks : LoopTurn(q)
    \/ \E q \in Ranks : BarrierCall(q)
    \/ \E q \in Ranks : BarrierReturn(q)
    \/ \E q \in Ranks : Summary(q)

SpecTopo == TopoInit /\ [][TopoNext]_vars

----------------------------------------------------------------------------
(* Every process of the core: the processes of one rendezvous, or one      *)
(* segment.  A step that can be taken is taken, and the clock advances      *)
(* while the processes sleep.                                               *)

CoreInit == RdvInit \/ SegInit

CoreNext == RdvNext \/ SegNext

FairCore == CoreInit /\ [][CoreNext]_vars /\ WF_vars(CoreNext)

----------------------------------------------------------------------------
(* Claims about the rendezvous *)

AddrDeadline(w) == hist.started[w] + AddrTimeout

AddrWritten == hist.addrClose # Never

\* The values a reader can get from the address record: the stripped, non-empty
\* contents the coordinator's write has put in the file so far.
AddrValuesWritten == { Strip(c) : c \in hist.addrSeen } \ { <<>> }

PastAddrWait(w) == hist.returned[w] # Never

\* C1 (as stated): a worker whose deadline falls after the coordinator's write never
\* ends its address wait in a timeout.
C1_AsStated ==
    \A w \in Workers :
        w \in hist.timedOut => ~(AddrWritten /\ hist.addrClose < AddrDeadline(w))

\* C1 (amended): a worker's address wait returns only after the coordinator's write
\* began, from a pass of its loop begun before the worker's own deadline; it ends in
\* a timeout only at or past the deadline and only if no look of the worker at the
\* record came after the write was complete and before cleanup removed the record.
\* A write before the deadline is necessary for a return, and is not sufficient.
C1_Amended ==
    \A w \in Workers :
        /\ PastAddrWait(w) =>
              /\ hist.addrOpen # Never
              /\ hist.addrOpen <= hist.returned[w]
              /\ hist.lastCheck[w] <= hist.returned[w]
              /\ hist.lastCheck[w] < AddrDeadline(w)
              /\ w \notin hist.timedOut
        /\ w \in hist.timedOut =>
              /\ now >= AddrDeadline(w)
              /\ \/ ~AddrWritten
                 \/ hist.lastCheck[w] <= hist.addrClose
                 \/ hist.addrGone # Never /\ hist.addrGone <= hist.lastCheck[w]

\* C1 witness: one worker got the address and another timed out although the write
\* was complete before its deadline.
C1_Witness ==
    \E w, v \in Workers :
        /\ PastAddrWait(w)
        /\ v \in hist.timedOut
        /\ AddrWritten /\ hist.addrClose < AddrDeadline(v)

\* C2: the value poll_file returns for the address record is never a non-empty
\* strict prefix of the value the coordinator writes.
C2_NoTruncatedRead ==
    \A w \in Workers :
        PastAddrWait(w) =>
            ~(wheld[w] # <<>> /\ wheld[w] # headAddr /\ IsPrefix(wheld[w], headAddr))

\* C3: a worker that has left its address wait holds a value that the coordinator's
\* write has already put in the record, and a worker joins the cluster only after
\* that write began, with the address the head runtime reported.
C3_NoReadBeforeWrite ==
    \A w \in Workers :
        /\ PastAddrWait(w) =>
              /\ hist.addrWrites >= 1
              /\ wheld[w] \in AddrValuesWritten
        /\ hist.joinedAt[w] # Never =>
              /\ hist.addrOpen # Never
              /\ hist.addrOpen <= hist.joinedAt[w]
              /\ wheld[w] = headAddr

\* C3 witness: a worker is connected to the head runtime.
C3_Witness == \E w \in Workers : w \in joined /\ wpc[w] = "d_poll"

\* C4: the address record is written at most once, exactly once in a run of the
\* coordinator that reaches its end, and only once the head runtime has started and
\* reported its address, which is the value written.
C4_WrittenOnce ==
    /\ hist.addrWrites <= 1
    /\ hpc = "h_done" => hist.addrWrites = 1
    /\ hist.addrWrites >= 1 =>
          /\ headAddr \in HeadAddrs
          /\ hpc \notin {"h_start", "h_write_addr"}
          /\ \A c \in hist.addrSeen : IsPrefix(c, headAddr)
    /\ AddrWritten => headAddr \in hist.addrSeen

\* C4 witness: the coordinator's run has ended normally after one address write.
C4_Witness == hpc = "h_done" /\ hexit = ExitOk /\ hist.addrWrites = 1

\* C5: while the address record has not been written, a worker is still waiting or
\* has been ended by TimeoutError, and its wait does not outlast the deadline by a
\* poll interval: it ends by raising TimeoutError.  A worker ended by TimeoutError
\* ended at or after its deadline, with the exit status of an uncaught error, and
\* has neither joined the cluster nor entered the done wait.
C5_TimeoutWhenNeverWritten ==
    \A w \in Workers :
        /\ hist.addrWrites = 0 =>
              /\ wpc[w] \in {"w_start", "a_poll", "a_sleep", "w_crashed"}
              /\ wpc[w] = "w_crashed" => w \in hist.timedOut
              /\ (hist.started[w] # Never /\ now >= AddrDeadline(w) + AddrInterval)
                    => w \in hist.timedOut
        /\ InAddrWait(w) => now < AddrDeadline(w) + AddrInterval
        /\ w \in hist.timedOut =>
              /\ wpc[w] = "w_crashed"
              /\ wexit[w] = ExitUncaught
              /\ now >= AddrDeadline(w)
              /\ hist.joinedAt[w] = Never
              /\ hist.returned[w] = Never
              /\ w \notin joined
              /\ wshut[w] = 0

\* C5 witness: the record was never written and every worker was ended by
\* TimeoutError.
C5_Witness ==
    /\ hist.addrWrites = 0
    /\ hpc = "h_crashed"
    /\ \A w \in Workers : w \in hist.timedOut /\ wpc[w] = "w_crashed"

\* C6: no worker is still polling for the done record when the coordinator has
\* already deleted it, and no worker's read of a record meets its deletion.
C6_NoDeleteDuringRead ==
    /\ \A w \in Workers : ~(InDoneWait(w) /\ DONE_FILE \in hist.removed)
    /\ \A w \in Workers : wpc[w] # "w_finally_err"

InFormWait == hpc \in {"h_form", "h_form_sleep"}

\* The workers that had joined by time t, and whether the expected number of nodes
\* (the head and those workers) was alive by then.
JoinedBy(t) == { w \in Workers : hist.joinedAt[w] # Never /\ hist.joinedAt[w] <= t }
FullBy(t) == 1 + Cardinality(JoinedBy(t)) >= ExpectedNodes

\* C15: the coordinator's membership wait ends at the first look that finds the
\* expected number of nodes alive (so within a poll interval of their being alive)
\* or else at its deadline, never later than a poll interval past it; after the
\* wait the coordinator records cluster_ok from the membership it has (false when
\* it is short of nodes) and goes on to the tests whatever the value; an error ends
\* its run only at start-up or inside the tests; and a run that gets past the tests
\* has written the done record.
C15_FormationNotFatal ==
    /\ [](/\ (InFormWait \/ hpc = "h_post") => hexit = NoExit
          /\ InFormWait => now < hdeadline + FormInterval
          /\ hpc = "h_form_sleep" => ~FullBy(hwake - FormInterval - 1)
          /\ hpc = "h_post" => (now >= hdeadline \/ FullBy(now))
          /\ hpc \in {"h_grace", "h_clean_addr", "h_clean_done", "h_done"} =>
                (hist.doneWrites = 1 /\ hist.doneClose # Never))
    /\ [][(hpc = "h_form" /\ hpc' # hpc) =>
              /\ hpc' = IF now < hdeadline /\ AliveNodes < ExpectedNodes
                           THEN "h_form_sleep" ELSE "h_post"
              /\ hexit' = NoExit]_vars
    /\ [][(hpc = "h_post" /\ hpc' # hpc) =>
              /\ hpc' = "h_work" /\ hexit' = NoExit /\ headAlive'
              /\ AliveNodes < ExpectedNodes => ~clusterOk'
              /\ clusterOk' => AliveNodes >= ExpectedNodes]_vars
    /\ [][(hpc' = "h_crashed" /\ hpc # hpc') => hpc \in {"h_start", "h_work"}]_vars

\* C15 witness: formation was recorded as failed (the wait timed out with too few
\* nodes), and the run still went through the tests, wrote the done record and
\* ended with status 0.
C15_Witness ==
    /\ ~clusterOk /\ joined = {}
    /\ hist.doneWrites = 1 /\ hist.doneClose # Never
    /\ hist.doneClose >= hdeadline
    /\ hpc = "h_done" /\ hexit = ExitOk

DoneDeadline(w) == hist.joinedAt[w] + DoneTimeout

WorkerEnded(w) == wpc[w] \in {"w_done", "w_crashed"}

\* C16: a worker's done wait lasts less than its timeout plus a poll interval; a
\* worker that leaves it, by finding the done record or by the TimeoutError, which
\* is caught, only shuts its runtime down and ends with status 0; and a worker that
\* joined a coordinator that never writes the done record ends that way, at or
\* after its deadline.
C16_DoneTimeoutNotError ==
    \A w \in Workers :
        /\ InDoneWait(w) => (wdeadline[w] = DoneDeadline(w)
                               /\ now < DoneDeadline(w) + DoneInterval)
        /\ wpc[w] = "w_finally" => (wexit[w] = NoExit /\ hist.joinedAt[w] # Never)
        /\ wpc[w] = "w_done" => (wexit[w] = ExitOk /\ wshut[w] = 1 /\ w \notin joined)
        /\ (hist.doneWrites = 0 /\ hist.joinedAt[w] # Never /\ WorkerEnded(w)) =>
              /\ wpc[w] = "w_done" /\ wexit[w] = ExitOk
              /\ now >= DoneDeadline(w)

\* C16 witness: the head ended in the tests without writing the done record; a
\* worker that had joined waited out its timeout and ended with status 0.
C16_Witness ==
    \E w \in Workers :
        /\ hist.doneWrites = 0 /\ hpc = "h_crashed"
        /\ hist.joinedAt[w] # Never /\ now >= DoneDeadline(w)
        /\ wpc[w] = "w_done" /\ wexit[w] = ExitOk

HeadEnded == hexit # NoExit

\* C18: once the coordinator's run has ended, by its normal end or by an error,
\* neither the address record nor the done record of the job is left in the store.
C18_RecordsDeletedAtEnd ==
    HeadEnded => \A p \in Paths : ~files[p].exists

DoneWritten == hist.doneClose # Never

\* C19: every worker whose address wait returned holds exactly the address the
\* coordinator wrote; and once the coordinator has written the done record, every
\* worker that was in its done wait at that time has, one done-poll interval later,
\* seen it and ended with status 0.
C19_EndToEnd ==
    \A w \in Workers :
        /\ PastAddrWait(w) => wheld[w] = headAddr
        /\ (DoneWritten /\ hist.joinedAt[w] # Never /\ hist.joinedAt[w] <= hist.doneClose
               /\ now > hist.doneClose + DoneInterval)
              => (wpc[w] = "w_done" /\ wexit[w] = ExitOk)

WorkerRunning(w) == wpc[w] # "w_none" /\ ~WorkerEnded(w)

\* The latest time a worker can still be running: it starts by MaxStart, its
\* address wait ends less than a poll interval after its deadline, and so does the
\* done wait that starts when the address wait ends.
WorkerBound == MaxStart + (AddrTimeout + AddrInterval) + (DoneTimeout + DoneInterval)

\* The latest time (in ticks) the work loop can still be sleeping.
SegmentBound == Iterations * TicksPerSecond

\* C17: every wait of the core is bounded: a worker is in its address wait for less
\* than timeout + interval, in its done wait likewise, the coordinator in its
\* membership wait likewise, and the work loop sleeps Iterations times one second;
\* so every worker process and every segment process ends, whatever the coordinator
\* does (never starts its runtime, dies, hangs in the tests, deletes the records).
C17_NoUnboundedWait ==
    /\ [](\A w \in Workers :
              /\ InAddrWait(w) => now < AddrDeadline(w) + AddrInterval
              /\ InDoneWait(w) => now < DoneDeadline(w) + DoneInterval
              /\ WorkerRunning(w) => now < WorkerBound)
    /\ [](InFormWait => now < hdeadline + FormInterval)
    /\ [](SegRunning => now <= SegmentBound)
    /\ <>[](/\ \A w \in Workers : wpc[w] = "w_none" \/ (WorkerEnded(w) /\ wexit[w] # NoExit)
            /\ spc = "s_none" \/ (~SegRunning /\ sexit # NoExit))

\* C17 witness: the head hangs in its tests and never writes the done record; both
\* workers, which had joined, have ended.
C17_Witness ==
    /\ hpc = "h_hung" /\ hist.doneWrites = 0
    /\ \A w \in Workers : hist.joinedAt[w] # Never /\ wpc[w] = "w_done"

----------------------------------------------------------------------------
(* Claims about the segment *)

\* Every step of the segment is taken when it can be, and the clock advances while
\* the script sleeps.
FairSeg == SpecSeg /\ WF_vars(SegNext)

Signalled == ssig # <<>>

\* RUNNING until a handled signal is delivered, TERMINATING from then on.
SegState == IF Signalled THEN "TERMINATING" ELSE "RUNNING"

WorkingLines(out) == { k \in DOMAIN out : out[k].kind = "working" }

\* C7: a handled signal (SIGUSR1 or SIGTERM) delivered at any point of the work loop
\* moves the segment from RUNNING to TERMINATING for good; from then on no pass of
\* the work loop runs, and the process exits with the resume code, never with 0.
C7_StateMachine ==
    /\ [](SegState = "TERMINATING" =>
              /\ spc # "s_done"
              /\ sexit # ExitOk
              /\ sexit \in {NoExit, ResumeCode})
    /\ [][SegState = "TERMINATING" =>
              /\ SegState' = "TERMINATING"
              /\ si' = si
              /\ spc' \in {spc, "s_resume", "s_crashed"}
              /\ WorkingLines(sout') = WorkingLines(sout)]_vars
    /\ [][SegState = "RUNNING" /\ ssig' # ssig => SegState' = "TERMINATING"]_vars
    /\ (SegState = "TERMINATING" ~> sexit = ResumeCode)

\* C7 witness: after some passes of the loop SIGTERM was delivered and handle_signal
\* ended the process with the resume code.
C7_Witness ==
    /\ si > 0
    /\ Len(ssig) = 1 /\ ssig[1].signum = SIGTERM
    /\ spc = "s_resume" /\ sexit = ResumeCode

\* The handle_signal call that is about to exit, the time t of its signal (in
\* ticks since segment_start), and the two lines it printed.
AboutToExit == InHandler /\ Top.pc = "l11"
SignalTime == ssig[Len(sframes)].at - sstart
ReportedSegment == sout[Len(sout) - 1].secs
ReportedTotal == sout[Len(sout)].secs

\* C8 (as stated): a signal at segment-local time t is reported as
\* segment_elapsed = t and total_elapsed = prior_elapsed + segment_elapsed.
C8_AsStated ==
    AboutToExit =>
        /\ ReportedSegment * TicksPerSecond = SignalTime
        /\ ReportedTotal = sprior + ReportedSegment

\* v is n/d rounded to the nearest whole number, a tie going to the even one.
IsRounded(v, n, d) ==
    LET diff == IF d * v >= n THEN d * v - n ELSE n - d * v
    IN  /\ 2 * diff <= d
        /\ 2 * diff = d => v % 2 = 0

\* C8 (amended): a signal at segment-local time t is reported as t rounded to whole
\* seconds and as prior_elapsed + t rounded to whole seconds (each to the nearest,
\* ties to even), prior_elapsed being the value read at start; when t is a whole
\* number of seconds the reports are exactly t and prior_elapsed + t.  The handler
\* then exits with the resume code.
C8_Amended ==
    /\ AboutToExit =>
          /\ sout[Len(sout) - 1].kind = "received"
          /\ sout[Len(sout)].kind = "total"
          /\ IsRounded(ReportedSegment, SignalTime, TicksPerSecond)
          /\ IsRounded(ReportedTotal, sprior * TicksPerSecond + SignalTime, TicksPerSecond)
          /\ SignalTime % TicksPerSecond = 0 =>
                /\ ReportedSegment * TicksPerSecond = SignalTime
                /\ ReportedTotal = sprior + ReportedSegment
          /\ sout[Len(sout)].requested = srequested
    /\ spc = "s_resume" =>
          /\ sexit = ResumeCode
          /\ sout[Len(sout)].kind = "total"

\* C8 witness: prior_elapsed = 300, a signal 50 s into the segment, a reported total
\* of 350 and the resume code.
C8_Witness ==
    /\ sprior = 300
    /\ Len(ssig) = 1 /\ ssig[1].at - sstart = 50 * TicksPerSecond
    /\ spc = "s_resume" /\ sexit = ResumeCode
    /\ sout[Len(sout)] = [kind |-> "total", secs |-> 350, requested |-> srequested]
    /\ sout[Len(sout) - 1].secs = 50

\* C9: no process ended by an uncaught error exits with the resume code; stated for
\* the case the claim names, a worker ended by the TimeoutError of its address wait.
C9_ResumeCodeDistinct ==
    \A w \in Workers :
        (w \in hist.timedOut /\ wpc[w] = "w_crashed") => wexit[w] # ResumeCode

\* C10: when a print of handle_signal raises, the process still exits with the
\* resume code, and not with 0.
C10_ExitCodeWhenHandlerRaises ==
    (\E k \in DOMAIN sout : sout[k] = Traceback) =>
        /\ Signalled
        /\ sexit = ResumeCode
        /\ sexit # ExitOk
        /\ ~SegRunning

\* C10 witness: the second print of handle_signal raised after the first line was
\* printed.
C10_Witness ==
    /\ spc = "s_crashed"
    /\ Len(sout) >= 2
    /\ sout[Len(sout)] = Traceback
    /\ sout[Len(sout) - 1].kind = "received"

\* The resume-elapsed record: the "Received signal" and "Total elapsed" lines.
ResumeRecords(out) == { k \in DOMAIN out : out[k].kind \in {"received", "total"} }

\* The passes of the work loop that print a progress line.
PrintingPasses == { i \in 0..(Iterations - 1) : i % PrintEvery = 0 }

\* C11: a segment that is never signalled emits no resume-elapsed record and ends
\* only by running its work loop to the last pass, with exit status 0; a run that
\* has a "Received signal" or "Total elapsed" line, or a non-zero status, was
\* signalled; and every run is signalled or reaches that normal end.
C11_NormalCompletion ==
    /\ [](~Signalled =>
              /\ ResumeRecords(sout) = {}
              /\ sexit \in {NoExit, ExitOk}
              /\ spc \in {"s_sleep", "s_body", "s_done"})
    /\ []((spc = "s_done" \/ sexit = ExitOk) =>
              /\ ~Signalled
              /\ spc = "s_done" /\ sexit = ExitOk
              /\ si = Iterations - 1
              /\ Cardinality(WorkingLines(sout)) = Cardinality(PrintingPasses)
              /\ Len(sout) = Cardinality(PrintingPasses))
    /\ <>(Signalled \/ (spc = "s_done" /\ sexit = ExitOk))

\* C11 witness: the work loop ran to its last pass with no signal and the script
\* ended with status 0, having printed only progress lines.
C11_Witness ==
    /\ ~Signalled
    /\ spc = "s_done" /\ sexit = ExitOk
    /\ si = Iterations - 1
    /\ Len(sout) >= 2 /\ ResumeRecords(sout) = {}

----------------------------------------------------------------------------
(* Claims about the store functions *)

\* A connection string: not empty, no white space in it.
ValidAddress(v) == v # <<>> /\ \A k \in DOMAIN v : v[k] \notin Blank

PolledPath == StorePath(stop.job, stop.key)

\* C12: a poll of a record whose latest completed write, by a process of the same
\* job, put a valid address there returns exactly that address; a poll of a record
\* never written returns no value (it ends in TimeoutError).  Stated for every key
\* of every job, the address record among them.
C12_RoundTrip ==
    stop.op = "poll" =>
        /\ (stlatest[PolledPath].state = "written"
                /\ ValidAddress(stlatest[PolledPath].value))
              => stop.result = [kind |-> "value", value |-> stlatest[PolledPath].value]
        /\ stlatest[PolledPath].state = "never" => stop.result = NoValue

\* C12 witness: the address record of job 42 was written, and a poll of it
\* returned the two-character address while the records of job 7 held other
\* content.
C12_Witness ==
    /\ stop.op = "poll" /\ stop.job = "42" /\ stop.key = ADDR_FILE
    /\ stlatest[PolledPath] = [state |-> "written", value |-> <<"a", "b">>]
    /\ stop.result = [kind |-> "value", value |-> <<"a", "b">>]
    /\ stlatest[StorePath("7", ADDR_FILE)] = [state |-> "written", value |-> <<"b">>]
    /\ stlatest[StorePath("7", DONE_FILE)].state = "never"

\* C13: a poll of a record whose latest write put the empty string there gives a
\* result different from the result of polling a record that is absent.
C13_AbsentVsEmpty ==
    (stop.op = "poll" /\ stlatest[PolledPath] = [state |-> "written", value |-> <<>>])
        => stop.result # PollResult(AbsentFile)

JobPaths(job) == { StorePath(job, k) : k \in Paths }

\* C14: cleanup() never raises, whether the records of its job exist, are already
\* removed, or cannot be removed; it leaves of them only those that cannot be
\* removed and touches no record of another job; a second call right after the
\* first changes nothing in the store and does not raise either.
C14_CleanupIdempotent ==
    /\ [](stop.op = "cleanup" =>
              /\ stop.result.kind = "returned"
              /\ \A p \in JobPaths(stop.job) : stfiles[p].exists => p \in stlocked)
    /\ [][stop'.op = "cleanup" =>
              \A p \in StorePaths \ JobPaths(stop'.job) : stfiles'[p] = stfiles[p]]_vars
    /\ [][(stop.op = "cleanup" /\ stop'.op = "cleanup" /\ stop'.job = stop.job) =>
              /\ stfiles' = stfiles
              /\ stop'.result.kind = "returned"]_vars

\* C14 witness: cleanup() was called twice in a row for job 7, whose done record
\* it removed and whose address record exists and cannot be removed.
C14_Witness ==
    /\ stop.op = "cleanup" /\ stop.job = "7" /\ stop.again
    /\ stop.result.kind = "returned"
    /\ stlocked = { StorePath("7", ADDR_FILE) }
    /\ stfiles[StorePath("7", ADDR_FILE)].exists
    /\ stlatest[StorePath("7", DONE_FILE)].state = "removed"

(***************************************************************************)
(* C20.  Topology verdict.  When check_topology has returned on rank 0,    *)
(* the host count in its results is the number of distinct hostnames among *)
(* the world_size hostnames gathered from the ranks, the results declare   *)
(* the run multi-node exactly when that count exceeds 1, and the last line *)
(* printed is the multi-node PASSED line in that case and the single-node  *)
(* WARNING line otherwise; in both cases the function returns.  With all   *)
(* hostnames identical the count is 1 and the warning is printed; with an  *)
(* even world_size N whose ranks sit pairwise on N/2 distinct hosts the    *)
(* count is exactly N/2.                                                   *)
(***************************************************************************)
DistinctHosts == { thost[q] : q \in Ranks }

PairedHosts ==
    /\ tworld % 2 = 0
    /\ \A q \in Ranks : Cardinality({ p \in Ranks : thost[p] = thost[q] }) = 2

C20_TopologyVerdict ==
    tpc[0] = "t_done" =>
        LET res == tres[0]
            last == tlog[Len(tlog)]
        IN  /\ Len(tnames[0]) = tworld
            /\ \A q \in Ranks : tnames[0][q + 1] = thost[q]
            /\ res.unique_hosts = Cardinality(DistinctHosts)
            /\ res.is_multi_node <=> res.unique_hosts > 1
            /\ Len(tlog) >= 1
            /\ last.nodes = res.unique_hosts
            /\ last.kind = IF res.unique_hosts > 1 THEN "multi_node_passed"
                                                   ELSE "single_node_warning"
            /\ (\A q \in Ranks : thost[q] = thost[0]) =>
                    res.unique_hosts = 1 /\ last.kind = "single_node_warning"
            /\ PairedHosts => 2 * res.unique_hosts = tworld

C20_Witness ==
    /\ tworld = 4
    /\ PairedHosts
    /\ \A q \in Ranks : tpc[q] = "t_done"
    /\ tres[0].unique_hosts = 2
    /\ tres[0].is_multi_node
    /\ tlog[Len(tlog)].kind = "multi_node_passed"

(***************************************************************************)
(* C21.  Ordered diagnostic output.  In the staggered loop rank r prints   *)
(* its line only when every rank below r has printed its own line and has *)
(* called the barrier after it, and rank r has returned from that barrier  *)
(* (it has crossed r barriers).  So the rank lines stand in the log in     *)
(* strictly increasing rank order, each once, for every world_size and     *)
(* every interleaving of the ranks.                                        *)
(***************************************************************************)
Printed(r) == \E i \in 1..Len(tlog) : tlog[i] = RankLine(r)

PrintsNow(r) == tlog' = Append(tlog, RankLine(r))

C21_OrderedOutput ==
    /\ [][\A r \in Ranks :
            PrintsNow(r) =>
                /\ ~Printed(r)
                /\ tr[r] = r
                /\ \A p \in Ranks : p < r => Printed(p) /\ BarrierCalls(p) >= r]_vars
    /\ [](\A i \in 1..Len(tlog) :
              tlog[i].kind = "rank" =>
                  /\ tlog[i].rank = i - 1
                  /\ tr[i - 1] >= i - 1)

C21_Witness ==
    /\ tworld = MaxWorld
    /\ \A q \in Ranks : tpc[q] = "t_done" /\ tlog[q + 1] = RankLine(q)
    /\ Len(tlog) = tworld + 2

(***************************************************************************)
(* C22.  Head-address cross-check.  As stated: rank 0 reports the          *)
(* MASTER_ADDR check as passed exactly when MASTER_ADDR matches one of the *)
(* hostnames reported by the ranks (C22_AnyHostname; "matches" is read as  *)
(* the code's own test, one string contained in the other).  As the code   *)
(* has it: the check passes exactly when MASTER_ADDR and the hostname of   *)
(* rank 0 match in that sense; the hostnames of the other ranks play no    *)
(* part (C22_RankZeroHostname).                                            *)
(***************************************************************************)
Matches(a, b) == Contains(a, b) \/ Contains(b, a)

MasterReported ==
    /\ tpc[0] = "t_done"
    /\ Len(tlog) >= 2
    /\ tlog[Len(tlog) - 1].kind \in {"master_passed", "master_failed"}

MasterPassed ==
    /\ tres[0].master_addr_correct
    /\ tlog[Len(tlog) - 1] = MasterLine(TRUE)

MasterFailed ==
    /\ ~tres[0].master_addr_correct
    /\ tlog[Len(tlog) - 1] = MasterLine(FALSE)

C22_AnyHostname ==
    tpc[0] = "t_done" =>
        IF \E q \in Ranks : Matches(tmaster, thost[q]) THEN MasterPassed
                                                         ELSE MasterFailed

C22_RankZeroHostname ==
    tpc[0] = "t_done" =>
        /\ MasterReported
        /\ tres[0].master_addr = tmaster
        /\ IF Matches(tmaster, thost[0]) THEN MasterPassed ELSE MasterFailed

C22_Witness ==
    /\ MasterReported
    /\ MasterFailed
    /\ \E q \in Ranks : q # 0 /\ tmaster = thost[q]
    /\ ~Matches(tmaster, thost[0])

(***************************************************************************)
(* C23.  Single writer by rank.  The role follows from the rank alone:     *)
(* process 0 runs run_head and every other process runs run_worker.  Only  *)
(* run_head writes or deletes the address and done records: every step     *)
(* that changes the shared store is a step of the head inside write_file   *)
(* or cleanup and leaves every worker where it was, and every step of a    *)
(* worker leaves the store unchanged.  So each record has one writer, the  *)
(* head, which writes it at most once in the job.                          *)
(***************************************************************************)
workerVars == <<wpc, wdeadline, wwake, wheld, wexit, wshut>>

HeadWriting ==
    hpc \in {"h_write_addr", "h_flush_addr", "h_write_done", "h_flush_done",
             "h_clean_addr", "h_clean_done"}

C23_SingleWriter ==
    /\ [](/\ Role(0) = "run_head"
          /\ Workers = { p \in 0..NumWorkers : Role(p) = "run_worker" }
          /\ hist.addrWrites <= 1
          /\ hist.doneWrites <= 1)
    /\ [][files' # files => HeadWriting /\ UNCHANGED workerVars]_vars
    /\ [][workerVars' # workerVars => UNCHANGED files]_vars

C23_Witness ==
    /\ hist.addrWrites = 1
    /\ hist.doneWrites = 1
    /\ hist.removed = Paths
    /\ \A w \in Workers : wpc[w] = "w_done" /\ hist.returned[w] # Never

(***************************************************************************)
(* C24.  Double head.  When two processes of one job both run run_head,    *)
(* neither write_file call fails, and once both have returned the address  *)
(* record holds the address of the later write; a worker that polls        *)
(* afterwards receives that address.  Whichever of the two writes counts   *)
(* as the later one (by its open, by its last write or by its return), the *)
(* record then holds the address of one of the two heads, whole.           *)
(***************************************************************************)
BothWritten == Len(dclosed) = Cardinality(Heads)

C24_LastWriterWins ==
    BothWritten =>
        /\ \A h \in Heads : dpc[h] = "h_form"
        /\ \E h \in Heads :
              /\ files[ADDR_FILE] = [exists |-> TRUE, data |-> daddr[h]]
              /\ dpolled # <<>> => dpolled[1] = [kind |-> "value", value |-> daddr[h]]

(***************************************************************************)
(* C25.  Topology snapshot.  On every rank the gathered list has exactly   *)
(* one hostname per rank, at the index of that rank, and it is the name of *)
(* the host that rank runs on.  In the view rank 0 derives from the list   *)
(* there are at least one and at most world_size distinct hosts, no host   *)
(* is listed twice, and every rank 0..world_size-1 belongs to the rank set *)
(* of exactly one listed host.                                             *)
(***************************************************************************)
HasGathered(q) == tpc[q] \notin {"t_start", "t_gather"}

\* The ranks the gathered list of rank 0 attributes to the k-th listed host.
RankSet(k) == { r \in Ranks : tnames[0][r + 1] = tres[0].hostnames[k] }

C25_TopologySnapshot ==
    /\ \A q \in Ranks :
          HasGathered(q) =>
              /\ DOMAIN tnames[q] = 1..tworld
              /\ \A r \in Ranks : tnames[q][r + 1] = thost[r]
    /\ tpc[0] = "t_done" =>
          LET hosts == tres[0].hostnames
          IN  /\ Len(hosts) = tres[0].unique_hosts
              /\ Len(hosts) >= 1
              /\ Len(hosts) <= tworld
              /\ \A j, k \in 1..Len(hosts) : j # k => hosts[j] # hosts[k]
              /\ \A r \in Ranks :
                    Cardinality({ k \in 1..Len(hosts) : r \in RankSet(k) }) = 1

C25_Witness ==
    /\ tworld = 3
    /\ \A q \in Ranks : tpc[q] = "t_done"
    /\ Len(tres[0].hostnames) = 2
    /\ { RankSet(k) : k \in 1..2 } = { {0, 2}, {1} }

(***************************************************************************)
(* C26.  The staggered loop cannot deadlock.  As long as some rank has not *)
(* returned from check_topology, some rank can take a step.  Every rank    *)
(* calls the barrier once in each pass of the loop, printing or not, which *)
(* makes world_size calls by the time it leaves the loop; when the first   *)
(* rank leaves the loop every rank has made all its calls.  The summary of *)
(* rank 0 comes after the line of the last rank.                           *)
(***************************************************************************)
PastLoop(q) == tpc[q] \in {"t_summary", "t_done"}

InLoop(q) == tpc[q] \in {"t_loop", "t_barrier", "t_wait"}

SummaryPrinted ==
    \E i \in 1..Len(tlog) : tlog[i].kind \in {"multi_node_passed", "single_node_warning"}

\* Rank q can take its next step: it is not inside a collective call that waits
\* for another rank, and has not returned.
CanStep(q) ==
    \/ tpc[q] \in {"t_start", "t_loop", "t_barrier", "t_summary"}
    \/ tpc[q] = "t_gather" /\ GatherComplete
    \/ tpc[q] = "t_wait" /\ BarrierComplete(q)

C26_LoopNeverDeadlocks ==
    /\ (\A q \in Ranks : tpc[q] = "t_done") \/ (\E q \in Ranks : CanStep(q))
    /\ \A q \in Ranks :
          /\ InLoop(q) => tr[q] < tworld /\ BarrierCalls(q) \in {tr[q], tr[q] + 1}
          /\ tpc[q] = "t_wait" => BarrierCalls(q) = tr[q] + 1
          /\ PastLoop(q) =>
                /\ tr[q] = tworld
                /\ \A p \in Ranks : BarrierCalls(p) = tworld
    /\ \A p, q \in Ranks : InLoop(p) /\ InLoop(q) => tr[p] - tr[q] \in {0 - 1, 0, 1}
    /\ SummaryPrinted =>
          /\ \A q \in Ranks : Printed(q) /\ BarrierCalls(q) = tworld
          /\ tlog[tworld] = RankLine(tworld - 1)

C26_Witness ==
    /\ tworld = MaxWorld
    /\ SummaryPrinted
    /\ \A q \in Ranks : tpc[q] = "t_done" /\ tr[q] = tworld

(***************************************************************************)
(* C27.  Record lifecycle on the head.  The write of the address record is *)
(* complete before the write of the done record begins; a record is        *)
(* deleted only after the write of the done record is complete, and from   *)
(* then on no record is written again; the done record never exists in a   *)
(* state where the address record was never written.                       *)
(***************************************************************************)
C27_LifecycleOrder ==
    /\ hist.doneWrites >= 1 =>
          /\ hist.addrWrites = 1
          /\ hist.addrClose # Never
          /\ hist.doneClose # Never => hist.addrClose <= hist.doneClose
    /\ files[DONE_FILE].exists => hist.addrWrites >= 1 /\ hist.doneWrites >= 1
    /\ hist.removed # {} =>
          /\ hist.doneClose # Never
          /\ hist.addrWrites = 1 /\ hist.doneWrites = 1
          /\ ADDR_FILE \in hist.removed
          /\ hist.addrGone >= hist.doneClose + HeadGrace
          /\ ~files[ADDR_FILE].exists
          /\ hpc \in {"h_clean_done", "h_done"}
    /\ DONE_FILE \in hist.removed => ~files[DONE_FILE].exists /\ hpc = "h_done"
    /\ files[ADDR_FILE].exists /\ hist.addrClose # Never =>
          files[ADDR_FILE].data = headAddr

C27_Witness ==
    /\ hpc = "h_done"
    /\ hist.removed = Paths
    /\ hist.addrClose < hist.doneClose
    /\ hist.addrGone = hist.doneClose + HeadGrace

(***************************************************************************)
(* C28.  A worker that has joined the cluster calls ray.shutdown() exactly *)
(* once before its process ends, whether its done wait returned the done   *)
(* record or timed out (or ended with another error); a worker that never  *)
(* joined makes no such call, and while a worker is in its done wait it is *)
(* connected and has made none.                                            *)
(***************************************************************************)
HasJoined(w) == hist.joinedAt[w] # Never

C28_ShutdownOnce ==
    \A w \in Workers :
        /\ wshut[w] \in {0, 1}
        /\ wshut[w] = 1 => HasJoined(w) /\ w \notin joined
        /\ HasJoined(w) /\ WorkerEnded(w) => wshut[w] = 1
        /\ HasJoined(w) /\ ~WorkerEnded(w) =>
              /\ wshut[w] = 0
              /\ w \in joined
              /\ InDoneWait(w) \/ wpc[w] \in {"w_finally", "w_finally_err"}
        /\ ~HasJoined(w) => w \notin joined

C28_Witness ==
    \E w1, w2 \in Workers :
        /\ wpc[w1] = "w_done" /\ wshut[w1] = 1 /\ now < wdeadline[w1]
        /\ wpc[w2] = "w_done" /\ wshut[w2] = 1 /\ now >= wdeadline[w2]
        /\ HasJoined(w1) /\ HasJoined(w2)

(***************************************************************************)
(* C29.  At most one resume diagnostic per segment.  However SIGUSR1 and   *)
(* SIGTERM are delivered, the second possibly while handle_signal is still *)
(* running for the first, the output has at most one "Total elapsed" line, *)
(* and a segment ended by handle_signal exits with the resume code.        *)
(***************************************************************************)
TotalLines(out) == { k \in DOMAIN out : out[k].kind = "total" }

C29_OneResumeRecord ==
    /\ Cardinality(TotalLines(sout)) <= 1
    /\ spc = "s_resume" => sexit = ResumeCode

(***************************************************************************)
(* C30.  total_elapsed, total_requested and segment_start get their values *)
(* when the script starts and no later step changes them: not the work     *)
(* loop, not handle_signal.  Every "Total elapsed" line is therefore the   *)
(* value inherited at start plus the time from segment_start to a          *)
(* delivered signal, against the requested total read at start, and every  *)
(* progress line counts its total from the inherited value as well.        *)
(***************************************************************************)
startVars == <<sprior, srequested, sstart>>

C30_StartValuesFixed ==
    /\ [][UNCHANGED startVars]_vars
    /\ [](/\ sprior \in PriorChoices
          /\ srequested \in RequestedChoices
          /\ sstart = 0
          /\ \A k \in DOMAIN sout :
                /\ sout[k].kind = "total" =>
                      \E d \in DOMAIN ssig :
                          sout[k] = TotalLine(sprior, Elapsed(ssig[d].at, sstart), srequested)
                /\ sout[k].kind = "working" =>
                      \E i \in 0..si : sout[k] = WorkingLine(i, sprior))

C30_Witness ==
    /\ sprior = 300
    /\ si >= PrintEvery
    /\ spc = "s_resume"
    /\ \E k \in DOMAIN sout : sout[k].kind = "working" /\ sout[k].total = 300 + PrintEvery
    /\ sout[Len(sout)].kind = "total" /\ sout[Len(sout)].secs > 300

====
